---- MODULE Spec2Model ----
(***************************************************************************)
(* Digital Cookbook: the recipe persistence and query engine of            *)
(* server/index.ts (Elysia routes over a bun:sqlite database).             *)
(*                                                                         *)
(* Text is modelled as a sequence of one-character strings, so that        *)
(* String.prototype.trim and SQL LOWER() are computed, not assumed.        *)
(* A nullable column or an optional payload field is a sequence of length  *)
(* 0 (NULL / undefined) or 1 (the value).  A table is the sequence of its  *)
(* rows in rowid order; tables whose ids are referenced keep the id and    *)
(* the AUTOINCREMENT counter (sqlite_sequence) explicitly.                 *)
(***************************************************************************)
EXTENDS Integers, Sequences, FiniteSets, TLC

\* db: the SQLite store; req, resp: the request served last and its reply;
\* run: the server's event loop (requests in flight, handlers under way);
\* client: the state of the browser application (React state and refs).
VARIABLES db, req, resp, run, client

vars == <<db, req, resp, run, client>>

\* ------------------------------------------------------------------ bounds
MaxCookbooks == 2
MaxRecipes == 2
MaxUses == 2

\* ------------------------------------------------------- values and text
NULL == <<>>
Some(x) == <<x>>
IsNull(v) == v = <<>>
Get(v) == v[1]

Range(s) == {s[i] : i \in 1..Len(s)}

isSpace(c) == c = " "

RECURSIVE trimStart(_)
trimStart(s) ==
    IF s = <<>> THEN s
    ELSE IF isSpace(Head(s)) THEN trimStart(Tail(s)) ELSE s

RECURSIVE trimEnd(_)
trimEnd(s) ==
    IF s = <<>> THEN s
    ELSE IF isSpace(s[Len(s)]) THEN trimEnd(SubSeq(s, 1, Len(s) - 1)) ELSE s

\* String.prototype.trim
trim(s) == trimEnd(trimStart(s))

lowerChar(c) ==
    CASE c = "A" -> "a"
      [] c = "B" -> "b"
      [] c = "S" -> "s"
      [] c = "T" -> "t"
      [] OTHER -> c

\* SQL LOWER(x) / String.prototype.toLowerCase
LOWER(s) == [i \in 1..Len(s) |-> lowerChar(s[i])]

\* the code unit of a character (the alphabet of the model)
codePoint(c) ==
    CASE c = " " -> 32 [] c = "%" -> 37 [] c = "1" -> 49
      [] c = "A" -> 65 [] c = "B" -> 66 [] c = "M" -> 77 [] c = "S" -> 83 [] c = "T" -> 84
      [] c = "\\" -> 92 [] c = "_" -> 95
      [] c = "a" -> 97 [] c = "b" -> 98 [] c = "c" -> 99 [] c = "k" -> 107
      [] c = "m" -> 109 [] c = "n" -> 110 [] c = "s" -> 115 [] c = "t" -> 116
      [] c = "u" -> 117 [] c = "x" -> 120 [] c = "y" -> 121
      [] OTHER -> 63

\* a < b in SQLite's BINARY collation: the first differing character
\* decides, a proper prefix comes first
textLess(a, b) ==
    \E i \in 1..Len(b) :
        /\ \A j \in 1..(i - 1) : j <= Len(a) /\ a[j] = b[j]
        /\ i > Len(a) \/ codePoint(a[i]) < codePoint(b[i])

\* ------------------------------------------------------------ the store
\* The state right after `db.exec(schema)` on a new file followed by the
\* default cookbook seed.
DefaultCookbookName == <<"M", "y">>

EmptyDb ==
    [cookbooks |-> <<>>, recipes |-> <<>>, tags |-> <<>>, recipe_tags |-> {},
     ingredients |-> <<>>, steps |-> <<>>, notes |-> <<>>, recipe_likes |-> <<>>,
     ingredient_names |-> <<>>,
     seq |-> [cookbooks |-> 0, recipes |-> 0, tags |-> 0, ingredient_names |-> 0]]

\* INSERT INTO cookbooks (name) VALUES (?)
insertCookbook(d, name) ==
    LET id == d.seq.cookbooks + 1 IN
    [d EXCEPT !.cookbooks = Append(@, [id |-> id, name |-> name]),
              !.seq.cookbooks = id]

\* the seed run on every start
seedDefaultCookbook_always(d) == insertCookbook(d, DefaultCookbookName)

\* if (!cookbookCountRow || cookbookCountRow.c === 0) INSERT 'My First Cookbook'
seedDefaultCookbook(d) ==
    IF Len(d.cookbooks) = 0 THEN insertCookbook(d, DefaultCookbookName) ELSE d

cookbookIds(d) == {c.id : c \in Range(d.cookbooks)}
recipeIds(d) == {r.id : r \in Range(d.recipes)}
recipeRow(d, id) == CHOOSE r \in Range(d.recipes) : r.id = id

\* the cascade with `PRAGMA foreign_keys = ON` left out
cascadeRecipes_pragmaOff(d, gone) == d

\* ON DELETE CASCADE from recipes: every child table loses the rows of the
\* recipes that are gone.
cascadeRecipes(d, gone) ==
    LET keep(row) == row.recipe_id \notin gone IN
    [d EXCEPT !.ingredients = SelectSeq(@, keep),
              !.steps = SelectSeq(@, keep),
              !.notes = SelectSeq(@, keep),
              !.recipe_likes = SelectSeq(@, keep),
              !.recipe_tags = {l \in @ : l.recipe_id \notin gone}]

\* DELETE FROM recipes WHERE id=?  (with its cascade)
deleteRecipeRow(d, id) ==
    LET keep(r) == r.id # id IN
    cascadeRecipes([d EXCEPT !.recipes = SelectSeq(@, keep)], {id})

\* DELETE FROM cookbooks WHERE id=?  (cascades to recipes, then children)
deleteCookbookRow(d, id) ==
    LET gone == {r.id : r \in {x \in Range(d.recipes) : x.cookbook_id = id}}
        keepC(c) == c.id # id
        keepR(r) == r.cookbook_id # id
    IN cascadeRecipes([d EXCEPT !.cookbooks = SelectSeq(@, keepC),
                                !.recipes = SelectSeq(@, keepR)], gone)

\* ------------------------------------------------------------ write path
\* JavaScript truthiness of an optional string: undefined, null and ''
\* are falsy.
truthy(v) == ~IsNull(v) /\ Get(v) # <<>>

\* One element of `ingredients`: a plain string (kind "str", the text in
\* `line`) or a structured object (kind "obj") whose fields may be absent.
StrIng(s) ==
    [kind |-> "str", line |-> Some(s), quantity |-> NULL, unit |-> NULL, name |-> NULL]
ObjIng(line, quantity, unit, name) ==
    [kind |-> "obj", line |-> line, quantity |-> quantity, unit |-> unit, name |-> name]

\* ing.line || (ing.name ? ing.name : '')   resp.   String(ing)
ingredientLine(ing) ==
    IF ing.kind = "obj"
    THEN IF truthy(ing.line) THEN Get(ing.line)
         ELSE IF truthy(ing.name) THEN Get(ing.name) ELSE <<>>
    ELSE Get(ing.line)

\* The row one stmt.run of insertIngredients writes for list[idx] (idx is
\* the 0-based forEach index).  The INSERT names no ingredient_id column, so
\* a reader of that column finds no value.
ingredientRow_oneBased(recipeId, ing, idx) ==
    [recipe_id |-> recipeId,
     line |-> ingredientLine(ing),
     quantity |-> IF ing.kind = "obj" THEN ing.quantity ELSE NULL,
     unit |-> IF ing.kind = "obj" THEN ing.unit ELSE NULL,
     name |-> IF ing.kind = "obj" THEN ing.name ELSE NULL,
     position |-> idx + 1,
     ingredient_id |-> NULL]

ingredientRow(recipeId, ing, idx) ==
    [recipe_id |-> recipeId,
     line |-> ingredientLine(ing),
     quantity |-> IF ing.kind = "obj" THEN ing.quantity ELSE NULL,
     unit |-> IF ing.kind = "obj" THEN ing.unit ELSE NULL,
     name |-> IF ing.kind = "obj" THEN ing.name ELSE NULL,
     position |-> idx,
     ingredient_id |-> NULL]

insertIngredients(d, recipeId, list) ==
    [d EXCEPT !.ingredients =
        @ \o [i \in 1..Len(list) |-> ingredientRow(recipeId, list[i], i - 1)]]

\* steps.forEach((step, idx) => stmt.run(recipeId, step, idx)): a step
\* that is null/undefined violates `instruction TEXT NOT NULL`, the run
\* throws and the rows written so far stay in the open transaction.
RECURSIVE insertStepsFrom(_, _, _, _)
insertStepsFrom(d, recipeId, steps, i) ==
    IF i > Len(steps) THEN [ok |-> TRUE, db |-> d]
    ELSE IF IsNull(steps[i]) THEN [ok |-> FALSE, db |-> d]
    ELSE insertStepsFrom(
            [d EXCEPT !.steps = Append(@, [recipe_id |-> recipeId,
                                           instruction |-> Get(steps[i]),
                                           position |-> i - 1])],
            recipeId, steps, i + 1)

insertSteps(d, recipeId, steps) == insertStepsFrom(d, recipeId, steps, 1)

tagIdOf(d, name) ==
    LET hit == {t \in Range(d.tags) : t.name = name} IN
    IF hit = {} THEN 0 ELSE (CHOOSE t \in hit : TRUE).id

\* INSERT OR IGNORE INTO tags (name) VALUES (?)   -- name TEXT NOT NULL UNIQUE
insertTagRow(d, name) ==
    IF tagIdOf(d, name) # 0 THEN d
    ELSE LET id == d.seq.tags + 1 IN
         [d EXCEPT !.tags = Append(@, [id |-> id, name |-> name]), !.seq.tags = id]

\* INSERT OR IGNORE INTO recipe_tags (recipe_id, tag_id) VALUES (?,?)
linkTag(d, recipeId, tagId) ==
    [d EXCEPT !.recipe_tags = @ \cup {[recipe_id |-> recipeId, tag_id |-> tagId]}]

\* The three statements shared by insertTags and POST /api/recipes/:id/tags.
insertAndLinkTag(d, recipeId, name) ==
    LET d1 == insertTagRow(d, name)
        tagId == tagIdOf(d1, name)
    IN IF tagId # 0 THEN linkTag(d1, recipeId, tagId) ELSE d1

RECURSIVE insertTags(_, _, _)
insertTags(d, recipeId, tags) ==
    IF tags = <<>> THEN d
    ELSE LET name == trim(Head(tags)) IN
         insertTags(IF name = <<>> THEN d ELSE insertAndLinkTag(d, recipeId, name),
                    recipeId, Tail(tags))

\* INSERT INTO notes (recipe_id, content) VALUES (?,?)
insertNote(d, recipeId, content) ==
    [d EXCEPT !.notes = Append(@, [recipe_id |-> recipeId, content |-> content])]

\* the DELETE left out
deleteWhereRecipe_none(rows, recipeId) == rows

deleteWhereRecipe(rows, recipeId) ==
    LET keep(row) == row.recipe_id # recipeId IN SelectSeq(rows, keep)

\* A request body.  photoDataUrl distinguishes an absent key (NULL) from a
\* key holding null (Some(NULL)) and a key holding a string (Some(Some(s))).
NoPayload ==
    [cookbook_id |-> 0, title |-> NULL, description |-> NULL, author |-> NULL,
     servings |-> NULL, ingredients |-> NULL, steps |-> NULL, notes |-> NULL,
     photoDataUrl |-> NULL, tags |-> NULL]

orElse(v, dflt) == IF IsNull(v) THEN dflt ELSE Get(v)

\* payload.photoDataUrl || null
photoOrNull(p) ==
    IF IsNull(p) THEN NULL ELSE IF truthy(Get(p)) THEN Get(p) ELSE NULL

\* `create` of POST /api/recipes: the statements in order.  The result is
\* the database as the statements left it and whether all of them ran.
create(d, cookbookId, title, payload) ==
    IF cookbookId \notin cookbookIds(d)
    THEN [ok |-> FALSE, db |-> d, id |-> 0]      \* FOREIGN KEY(cookbook_id) fails
    ELSE
    LET recipeId == d.seq.recipes + 1
        row == [id |-> recipeId, cookbook_id |-> cookbookId, title |-> title,
                description |-> IF truthy(payload.description)
                                THEN Get(payload.description) ELSE <<>>,
                author |-> IF truthy(payload.author) THEN Get(payload.author) ELSE <<>>,
                photo |-> photoOrNull(payload.photoDataUrl),
                uses |-> 0,
                servings |-> IF IsNull(payload.servings) \/ Get(payload.servings) = 0
                             THEN 1 ELSE Get(payload.servings)]
        d1 == [d EXCEPT !.recipes = Append(@, row), !.seq.recipes = recipeId]
        d2 == insertIngredients(d1, recipeId, orElse(payload.ingredients, <<>>))
        s3 == insertSteps(d2, recipeId, orElse(payload.steps, <<>>))
        d4 == IF ~IsNull(payload.notes) /\ trim(Get(payload.notes)) # <<>>
              THEN insertNote(s3.db, recipeId, Get(payload.notes)) ELSE s3.db
        d5 == insertTags(d4, recipeId, orElse(payload.tags, <<>>))
    IN IF ~s3.ok THEN [ok |-> FALSE, db |-> s3.db, id |-> 0]
       ELSE [ok |-> TRUE, db |-> d5, id |-> recipeId]

\* the photo written only when the patch holds a string (`if (photoDataUrl)`)
updateScalars_photoIfTruthy(d, id, payload) ==
    LET upd(r) ==
          IF r.id # id THEN r
          ELSE [r EXCEPT
                  !.title = IF IsNull(payload.title) THEN @ ELSE Get(payload.title),
                  !.description = IF IsNull(payload.description) THEN @
                                  ELSE Get(payload.description),
                  !.author = IF IsNull(payload.author) THEN @ ELSE Get(payload.author),
                  !.photo = IF IsNull(payload.photoDataUrl) \/ IsNull(Get(payload.photoDataUrl))
                            THEN @ ELSE Get(payload.photoDataUrl),
                  !.servings = IF IsNull(payload.servings) THEN @
                               ELSE Get(payload.servings)]
    IN [d EXCEPT !.recipes = [i \in 1..Len(@) |-> upd(@[i])]]

\* UPDATE recipes SET <the fields present> WHERE id = ?
updateScalars(d, id, payload) ==
    LET upd(r) ==
          IF r.id # id THEN r
          ELSE [r EXCEPT
                  !.title = IF IsNull(payload.title) THEN @ ELSE Get(payload.title),
                  !.description = IF IsNull(payload.description) THEN @
                                  ELSE Get(payload.description),
                  !.author = IF IsNull(payload.author) THEN @ ELSE Get(payload.author),
                  !.photo = IF IsNull(payload.photoDataUrl) THEN @
                            ELSE Get(payload.photoDataUrl),
                  !.servings = IF IsNull(payload.servings) THEN @
                               ELSE Get(payload.servings)]
    IN [d EXCEPT !.recipes = [i \in 1..Len(@) |-> upd(@[i])]]

\* `update` of PATCH /api/recipes/:id
update(d, id, payload) ==
    LET d1 == updateScalars(d, id, payload)
        d2 == IF IsNull(payload.ingredients) THEN d1
              ELSE insertIngredients(
                     [d1 EXCEPT !.ingredients = deleteWhereRecipe(@, id)],
                     id, Get(payload.ingredients))
        s3 == IF IsNull(payload.steps) THEN [ok |-> TRUE, db |-> d2]
              ELSE insertSteps([d2 EXCEPT !.steps = deleteWhereRecipe(@, id)],
                               id, Get(payload.steps))
        d4 == IF IsNull(payload.notes) THEN s3.db
              ELSE LET cleared == [s3.db EXCEPT !.notes = deleteWhereRecipe(@, id)] IN
                   IF trim(Get(payload.notes)) # <<>>
                   THEN insertNote(cleared, id, Get(payload.notes)) ELSE cleared
    IN IF ~s3.ok THEN [ok |-> FALSE, db |-> s3.db, id |-> id]
       ELSE [ok |-> TRUE, db |-> d4, id |-> id]

\* BEGIN TRANSACTION; handler(); COMMIT -- or ROLLBACK and rethrow.
\* `before` is the database at BEGIN, `result` what the handler did.
runTransaction_noRollback(before, result) == result.db

runTransaction(before, result) == IF result.ok THEN result.db ELSE before

\* ------------------------------------------------------- route handlers
\* Each handler is a synchronous callback: it runs to completion on the
\* single JavaScript thread, so one handler is one step.  A handler maps
\* the database to the database it leaves and the response it sends.
Reply(d, status, id, uses) ==
    [db |-> d, resp |-> [status |-> status, id |-> id, uses |-> uses]]

ok(d) == Reply(d, 200, 0, 0)
badRequest(d) == Reply(d, 400, 0, 0)
notFound(d) == Reply(d, 404, 0, 0)
\* an exception that leaves the handler: Elysia answers 500
serverError(d) == Reply(d, 500, 0, 0)

\* POST /api/cookbooks
createCookbook(d, rawName) ==
    LET name == trim(rawName) IN
    IF name = <<>> THEN badRequest(d)
    ELSE LET d1 == insertCookbook(d, name) IN Reply(d1, 200, d1.seq.cookbooks, 0)

\* PATCH /api/cookbooks/:id
renameCookbook(d, id, rawName) ==
    LET name == trim(rawName)
        upd(c) == IF c.id = id THEN [c EXCEPT !.name = name] ELSE c
    IN IF id = 0 THEN badRequest(d)
       ELSE IF name = <<>> THEN badRequest(d)
       ELSE IF id \notin cookbookIds(d) THEN notFound(d)
       ELSE ok([d EXCEPT !.cookbooks = [i \in 1..Len(@) |-> upd(@[i])]])

\* DELETE /api/cookbooks/:id
deleteCookbook(d, id) ==
    IF id = 0 THEN badRequest(d)
    ELSE IF id \notin cookbookIds(d) THEN notFound(d)
    ELSE ok(deleteCookbookRow(d, id))

\* POST /api/recipes
createRecipe(d, payload) ==
    LET cookbookId == payload.cookbook_id
        title == IF IsNull(payload.title) THEN <<>> ELSE trim(Get(payload.title))
        result == create(d, cookbookId, title, payload)
    IN IF cookbookId = 0 \/ title = <<>> THEN badRequest(d)
       ELSE IF result.ok THEN Reply(runTransaction(d, result), 200, result.id, 0)
       ELSE serverError(runTransaction(d, result))

\* the handler with a tag replacement after `update`, as create has one
updateRecipe_withTags(d, id, payload) ==
    LET result == update(d, id, payload)
        unlinked == [result.db EXCEPT !.recipe_tags = {l \in @ : l.recipe_id # id}]
        tagged == IF IsNull(payload.tags) THEN result.db
                  ELSE insertTags(unlinked, id, Get(payload.tags))
    IN IF id <= 0 THEN badRequest(d)
       ELSE IF id \notin recipeIds(d) THEN notFound(d)
       ELSE IF result.ok THEN ok(runTransaction(d, [result EXCEPT !.db = tagged]))
       ELSE serverError(runTransaction(d, result))

\* PATCH /api/recipes/:id
updateRecipe(d, id, payload) ==
    LET result == update(d, id, payload) IN
    IF id <= 0 THEN badRequest(d)
    ELSE IF id \notin recipeIds(d) THEN notFound(d)
    ELSE IF result.ok THEN ok(runTransaction(d, result))
    ELSE serverError(runTransaction(d, result))

setUses(d, id, n) ==
    LET upd(r) == IF r.id = id THEN [r EXCEPT !.uses = n] ELSE r IN
    [d EXCEPT !.recipes = [i \in 1..Len(@) |-> upd(@[i])]]

\* POST /api/recipes/:id/increment-uses
incrementUses(d, id) ==
    IF id <= 0 THEN badRequest(d)
    ELSE IF id \notin recipeIds(d) THEN notFound(d)
    ELSE LET d1 == setUses(d, id, recipeRow(d, id).uses + 1) IN
         Reply(d1, 200, 0, recipeRow(d1, id).uses)

decrementUses_noFloor(d, id) ==
    IF id <= 0 THEN badRequest(d)
    ELSE IF id \notin recipeIds(d) THEN notFound(d)
    ELSE LET next == recipeRow(d, id).uses - 1 IN Reply(setUses(d, id, next), 200, 0, next)

\* POST /api/recipes/:id/decrement-uses
decrementUses(d, id) ==
    IF id <= 0 THEN badRequest(d)
    ELSE IF id \notin recipeIds(d) THEN notFound(d)
    ELSE LET existing == recipeRow(d, id)
             next == IF existing.uses > 0 THEN existing.uses - 1 ELSE 0
         IN Reply(IF next # existing.uses THEN setUses(d, id, next) ELSE d, 200, 0, next)

\* the tag row written before the recipe is looked up
addTagToRecipe_tagFirst(d, id, rawName) ==
    LET name == trim(rawName) IN
    IF id <= 0 THEN badRequest(d)
    ELSE IF name = <<>> THEN badRequest(d)
    ELSE IF id \notin recipeIds(d) THEN notFound(insertTagRow(d, name))
    ELSE ok(insertAndLinkTag(d, id, name))

\* the name used as sent, not trimmed
addTagToRecipe_noTrim(d, id, rawName) ==
    IF id <= 0 THEN badRequest(d)
    ELSE IF id \notin recipeIds(d) THEN notFound(d)
    ELSE IF trim(rawName) = <<>> THEN badRequest(d)
    ELSE ok(insertAndLinkTag(d, id, rawName))

\* POST /api/recipes/:id/tags
addTagToRecipe(d, id, rawName) ==
    LET name == trim(rawName) IN
    IF id <= 0 THEN badRequest(d)
    ELSE IF id \notin recipeIds(d) THEN notFound(d)
    ELSE IF name = <<>> THEN badRequest(d)
    ELSE ok(insertAndLinkTag(d, id, name))

\* DELETE /api/recipes/:id/tags/:name
removeTagFromRecipe(d, id, name) ==
    LET tagId == tagIdOf(d, name) IN
    IF id <= 0 THEN badRequest(d)
    ELSE IF id \notin recipeIds(d) THEN notFound(d)
    ELSE IF tagId = 0 THEN ok(d)
    ELSE ok([d EXCEPT !.recipe_tags = @ \ {[recipe_id |-> id, tag_id |-> tagId]}])

\* a plain INSERT into a table without the UNIQUE(recipe_id, name) index
insertLike_always(d, id, name) ==
    [d EXCEPT !.recipe_likes = Append(@, [recipe_id |-> id, name |-> name])]

\* INSERT OR IGNORE INTO recipe_likes (recipe_id, name) -- UNIQUE(recipe_id, name)
insertLike(d, id, name) ==
    IF \E l \in Range(d.recipe_likes) : l.recipe_id = id /\ l.name = name THEN d
    ELSE [d EXCEPT !.recipe_likes = Append(@, [recipe_id |-> id, name |-> name])]

\* POST /api/recipes/:id/likes
addLike(d, id, rawName) ==
    LET name == trim(rawName) IN
    IF id <= 0 THEN badRequest(d)
    ELSE IF id \notin recipeIds(d) THEN notFound(d)
    ELSE IF name = <<>> THEN badRequest(d)
    ELSE ok(insertLike(d, id, name))

\* DELETE /api/recipes/:id/likes/:name
removeLike(d, id, name) ==
    LET keep(l) == ~(l.recipe_id = id /\ l.name = name) IN
    IF id <= 0 THEN badRequest(d)
    ELSE IF id \notin recipeIds(d) THEN notFound(d)
    ELSE ok([d EXCEPT !.recipe_likes = SelectSeq(@, keep)])

\* DELETE /api/recipes/:id
\* the DELETE answered with success whatever it removed
deleteRecipe_silent(d, id) == ok(deleteRecipeRow(d, id))

deleteRecipe(d, id) ==
    IF id \notin recipeIds(d) THEN notFound(d) ELSE ok(deleteRecipeRow(d, id))

\* ----------------------------------------------------------- read path
RECURSIVE sortByPosition(_)
sortByPosition(rows) ==
    IF rows = <<>> THEN <<>>
    ELSE LET i == CHOOSE k \in 1..Len(rows) :
                    \A j \in 1..Len(rows) :
                        \/ rows[k].position < rows[j].position
                        \/ rows[k].position = rows[j].position /\ k <= j
         IN <<rows[i]>> \o sortByPosition(SubSeq(rows, 1, i - 1) \o SubSeq(rows, i + 1, Len(rows)))

rowsOf(rows, recipeId) ==
    LET mine(row) == row.recipe_id = recipeId IN SelectSeq(rows, mine)

\* GET /api/recipes/:id  (the recipe must exist; the route answers 404
\* otherwise)
getRecipe(d, id) ==
    LET ingredientsRows == sortByPosition(rowsOf(d.ingredients, id))
        stepRows == sortByPosition(rowsOf(d.steps, id))
        noteRows == rowsOf(d.notes, id)
        likeRows == rowsOf(d.recipe_likes, id)
    IN [recipe |-> recipeRow(d, id),
        ingredients |-> [i \in 1..Len(ingredientsRows) |->
                           [structured |-> \/ ~IsNull(ingredientsRows[i].name)
                                           \/ ~IsNull(ingredientsRows[i].quantity)
                                           \/ ~IsNull(ingredientsRows[i].unit),
                            line |-> ingredientsRows[i].line,
                            quantity |-> ingredientsRows[i].quantity,
                            unit |-> ingredientsRows[i].unit,
                            name |-> ingredientsRows[i].name]],
        steps |-> [i \in 1..Len(stepRows) |-> stepRows[i].instruction],
        notes |-> IF noteRows = <<>> THEN <<>> ELSE noteRows[1].content,
        tags |-> {t.name : t \in {x \in Range(d.tags) :
                     [recipe_id |-> id, tag_id |-> x.id] \in d.recipe_tags}},
        likes |-> [i \in 1..Len(likeRows) |-> likeRows[i].name]]

\* fetchTags / fetchLikes: the tag names and the liker names of one recipe
tagsOf(d, id) ==
    {t.name : t \in {x \in Range(d.tags) :
                        [recipe_id |-> id, tag_id |-> x.id] \in d.recipe_tags}}

likesOf(d, id) ==
    LET likeRows == rowsOf(d.recipe_likes, id) IN
    [i \in 1..Len(likeRows) |-> likeRows[i].name]

\* one element of a list or search result: the recipe row with its tags
\* and likes
summaryOf(d, r) == [recipe |-> r, tags |-> tagsOf(d, r.id), likes |-> likesOf(d, r.id)]

summaries(d, rows) == [i \in 1..Len(rows) |-> summaryOf(d, rows[i])]

\* the titles compared as stored
titleBefore_caseSensitive(a, b) ==
    \/ textLess(a.title, b.title)
    \/ a.title = b.title /\ a.id < b.id

\* row a comes before row b under ORDER BY LOWER(title) ASC, id ASC
titleBefore(a, b) ==
    \/ textLess(LOWER(a.title), LOWER(b.title))
    \/ LOWER(a.title) = LOWER(b.title) /\ a.id < b.id

insertAt(acc, row, k) == SubSeq(acc, 1, k) \o <<row>> \o SubSeq(acc, k + 1, Len(acc))

\* the number of rows of the ordered rows `acc` that come before `row`,
\* known to lie in lo..hi
RECURSIVE placeOf(_, _, _, _)
placeOf(acc, row, lo, hi) ==
    IF lo = hi THEN lo
    ELSE IF titleBefore(acc[(lo + hi + 1) \div 2], row)
         THEN placeOf(acc, row, (lo + hi + 1) \div 2, hi)
         ELSE placeOf(acc, row, lo, ((lo + hi + 1) \div 2) - 1)

\* `row` put in its place in the ordered rows `acc`
insertOrdered(acc, row) == insertAt(acc, row, placeOf(acc, row, 0, Len(acc)))

\* `acc` holds the first Len(acc) rows in order; the rows after them, up to
\* rows[hi], are put in one after the other (in two halves, so that the
\* nesting stays shallow for a long table)
RECURSIVE orderFrom(_, _, _)
orderFrom(rows, hi, acc) ==
    IF Len(acc) >= hi THEN acc
    ELSE IF Len(acc) + 1 = hi THEN insertOrdered(acc, rows[hi])
    ELSE orderFrom(rows, hi, orderFrom(rows, (Len(acc) + hi) \div 2, acc))

\* ORDER BY LOWER(title) ASC, id ASC
orderByTitle(rows) == orderFrom(rows, Len(rows), <<>>)

recipesOfCookbook(d, cookbookId) ==
    LET mine(r) == r.cookbook_id = cookbookId IN SelectSeq(d.recipes, mine)

\* a read route's reply
Page(status, items) == [status |-> status, items |-> items]

\* GET /api/recipes?cookbookId=
listRecipes(d, cookbookId) ==
    IF cookbookId = 0 THEN Page(400, <<>>)
    ELSE Page(200, summaries(d, orderByTitle(recipesOfCookbook(d, cookbookId))))

\* rawTerm.replace(/[%_]/g, '\\$&'): a backslash before every % and _
RECURSIVE escapeLike(_)
escapeLike(s) ==
    IF s = <<>> THEN <<>>
    ELSE (IF Head(s) \in {"%", "_"} THEN <<"\\", Head(s)>> ELSE <<Head(s)>>)
            \o escapeLike(Tail(s))

\* text LIKE pattern ESCAPE '\': % stands for any run of characters, _ for
\* one character, the escape character makes the character after it stand
\* for itself (and matches nothing when it ends the pattern); letters are
\* compared ignoring case
RECURSIVE like(_, _)
like(pattern, text) ==
    IF pattern = <<>> THEN text = <<>>
    ELSE IF Head(pattern) = "%"
    THEN \E k \in 0..Len(text) : like(Tail(pattern), SubSeq(text, k + 1, Len(text)))
    ELSE IF Head(pattern) = "\\"
    THEN /\ Len(pattern) > 1
         /\ text # <<>>
         /\ lowerChar(pattern[2]) = lowerChar(Head(text))
         /\ like(SubSeq(pattern, 3, Len(pattern)), Tail(text))
    ELSE IF Head(pattern) = "_"
    THEN text # <<>> /\ like(Tail(pattern), Tail(text))
    ELSE /\ text # <<>>
         /\ lowerChar(Head(pattern)) = lowerChar(Head(text))
         /\ like(Tail(pattern), Tail(text))

\* the WHERE clause of the search: title, description, a linked tag or a
\* liker matches the pattern
matchesTerm(d, r, likeTerm) ==
    \/ like(likeTerm, LOWER(r.title))
    \/ like(likeTerm, LOWER(r.description))
    \/ \E name \in tagsOf(d, r.id) : like(likeTerm, LOWER(name))
    \/ \E name \in Range(likesOf(d, r.id)) : like(likeTerm, LOWER(name))

\* LIMIT 200
SearchLimit == 200

\* the statement without its LIMIT
firstRows_unlimited(rows, n) == rows

firstRows(rows, n) == IF Len(rows) <= n THEN rows ELSE SubSeq(rows, 1, n)

\* the SELECT of the search: WHERE, ORDER BY, LIMIT (both only with a term)
searchStatement(d, cookbookId, rawTerm) ==
    LET likeTerm == <<"%">> \o escapeLike(rawTerm) \o <<"%">>
        hit(r) == r.cookbook_id = cookbookId /\ matchesTerm(d, r, likeTerm)
    IN IF rawTerm = <<>> THEN orderByTitle(recipesOfCookbook(d, cookbookId))
       ELSE firstRows(orderByTitle(SelectSeq(d.recipes, hit)), SearchLimit)

\* the term used as sent
searchRecipes_noTrim(d, cookbookId, q) ==
    IF cookbookId <= 0 THEN Page(400, <<>>)
    ELSE Page(200, summaries(d, searchStatement(d, cookbookId,
                                    LOWER(IF IsNull(q) THEN <<>> ELSE Get(q)))))

\* GET /api/recipes/search?cookbookId=&q=
searchRecipes(d, cookbookId, q) ==
    IF cookbookId <= 0 THEN Page(400, <<>>)
    ELSE Page(200, summaries(d, searchStatement(d, cookbookId,
                                    LOWER(trim(IF IsNull(q) THEN <<>> ELSE Get(q))))))

\* ------------------------------------------------------------ the system
NoReq == [op |-> "boot", id |-> 0, name |-> <<>>, payload |-> NoPayload]

\* no request in flight, no page open
Idle == [inflight |-> {}]
NoClient == [open |-> FALSE]

Init ==
    /\ db = seedDefaultCookbook(EmptyDb)
    /\ req = NoReq
    /\ resp = [status |-> 200, id |-> 0, uses |-> 0]
    /\ run = Idle
    /\ client = NoClient

\* A request `r` is served: the handler's outcome `out` becomes the state.
Serve(r, out) ==
    /\ req' = r
    /\ db' = out.db
    /\ resp' = out.resp
    /\ UNCHANGED <<run, client>>

\* The same step seen from the store alone (the request and the response
\* are not recorded).
Apply(out) ==
    /\ db' = out.db
    /\ UNCHANGED <<req, resp, run, client>>

Req(op, id, name, payload) == [op |-> op, id |-> id, name |-> name, payload |-> payload]

\* ---------------------------------------------------------------- inputs
CookbookIds == 0..MaxCookbooks
RecipeIds == 0..MaxRecipes

Sugar == ObjIng(Some(<<"1", "S">>), Some(1), Some(<<"c">>), Some(<<"S">>))
salt == StrIng(<<"s", "a">>)
step_m == Some(<<"m">>)
step_k == Some(<<"k">>)

BarePayload(c) == [NoPayload EXCEPT !.cookbook_id = c, !.title = Some(<<"a">>)]

FullPayload(c) ==
    [BarePayload(c) EXCEPT !.ingredients = Some(<<Sugar, salt>>),
                           !.steps = Some(<<step_m>>),
                           !.notes = Some(<<"n">>),
                           !.tags = Some(<<<<"t">>>>)]

\* a body whose second step is null: the write phase fails after the recipe
\* row, the ingredient rows and the first step row were written
FailingPayload(c) ==
    [BarePayload(c) EXCEPT !.ingredients = Some(<<salt>>),
                           !.steps = Some(<<step_m, NULL>>)]

\* ------------------------------------------- Spec: the store and its keys
\* Cookbooks and recipes come and go, recipes are written with and without
\* children and are tagged and liked, seen from the store.
StorePayloads ==
    {BarePayload(c) : c \in CookbookIds} \cup {FullPayload(c) : c \in CookbookIds}

StoreCreateCookbook ==
    /\ db.seq.cookbooks < MaxCookbooks
    /\ Apply(createCookbook(db, <<"c">>))

StoreDeleteCookbook == \E id \in CookbookIds : Apply(deleteCookbook(db, id))

StoreCreateRecipe ==
    \E p \in StorePayloads :
        /\ db.seq.recipes < MaxRecipes
        /\ Apply(createRecipe(db, p))

StoreDeleteRecipe == \E id \in RecipeIds : Apply(deleteRecipe(db, id))

StoreAddTag == \E id \in RecipeIds : Apply(addTagToRecipe(db, id, <<"u">>))

StoreAddLike == \E id \in RecipeIds : Apply(addLike(db, id, <<"x">>))

Next ==
    \/ StoreCreateCookbook \/ StoreDeleteCookbook
    \/ StoreCreateRecipe \/ StoreDeleteRecipe
    \/ StoreAddTag \/ StoreAddLike

Spec == Init /\ [][Next]_vars

NoOrphans(d) ==
    /\ \A r \in Range(d.recipes) : r.cookbook_id \in cookbookIds(d)
    /\ \A row \in Range(d.ingredients) : row.recipe_id \in recipeIds(d)
    /\ \A row \in Range(d.steps) : row.recipe_id \in recipeIds(d)
    /\ \A row \in Range(d.notes) : row.recipe_id \in recipeIds(d)
    /\ \A row \in Range(d.recipe_likes) : row.recipe_id \in recipeIds(d)
    /\ \A l \in d.recipe_tags : l.recipe_id \in recipeIds(d)

\* the rows of `rows` that belong to the recipes in `ids`, in table order
childrenOf(rows, ids) == LET mine(row) == row.recipe_id \in ids IN SelectSeq(rows, mine)

\* from `d` to `e`, nothing that belongs to a recipe of `ids` has changed
SameRecipes(d, e, ids) ==
    /\ \A id \in ids : id \in recipeIds(e) /\ recipeRow(e, id) = recipeRow(d, id)
    /\ childrenOf(e.ingredients, ids) = childrenOf(d.ingredients, ids)
    /\ childrenOf(e.steps, ids) = childrenOf(d.steps, ids)
    /\ childrenOf(e.notes, ids) = childrenOf(d.notes, ids)
    /\ childrenOf(e.recipe_likes, ids) = childrenOf(d.recipe_likes, ids)
    /\ {l \in e.recipe_tags : l.recipe_id \in ids} = {l \in d.recipe_tags : l.recipe_id \in ids}

\* C3: no orphan rows in any reachable state; a step that removes a
\* cookbook removes exactly that cookbook's recipes, a step that removes a
\* recipe removes exactly that recipe, in both cases with every ingredient,
\* step, note, tag link and like of the removed recipes, and all rows of the
\* other cookbooks and recipes stay as they were.
C3_NoOrphansCascade ==
    [][/\ NoOrphans(db')
       /\ \A c \in cookbookIds(db) \ cookbookIds(db') :
            LET other == {r.id : r \in {x \in Range(db.recipes) : x.cookbook_id # c}} IN
            /\ recipeIds(db') = other
            /\ SameRecipes(db, db', other)
            /\ cookbookIds(db') = cookbookIds(db) \ {c}
       /\ (cookbookIds(db') = cookbookIds(db) /\ recipeIds(db') # recipeIds(db)
              /\ recipeIds(db') \subseteq recipeIds(db)) =>
            /\ Cardinality(recipeIds(db) \ recipeIds(db')) = 1
            /\ SameRecipes(db, db', recipeIds(db'))
      ]_vars

\* cookbook 2 and its recipe 2 are gone, recipe 1 of cookbook 1 still has
\* its ingredient, step and note rows, its tag link and a like
C3_Witness ==
    /\ db.seq.cookbooks = 2 /\ cookbookIds(db) = {1}
    /\ db.seq.recipes = 2 /\ recipeIds(db) = {1}
    /\ Len(db.ingredients) = 2 /\ Len(db.steps) = 1 /\ Len(db.notes) = 1
    /\ Cardinality(db.recipe_tags) = 1 /\ Len(db.recipe_likes) = 1

\* ------------------------------------- SpecLists: the ordered-list writer
\* createRecipe and updateRecipe with lists of several lengths, repeated
\* items, an unknown cookbook and a null step, request and response visible.
ListPayloads ==
    {BarePayload(1),
     [BarePayload(1) EXCEPT !.ingredients = Some(<<>>), !.steps = Some(<<>>)],
     [BarePayload(1) EXCEPT !.ingredients = Some(<<Sugar, salt>>),
                            !.steps = Some(<<step_m>>)],
     [BarePayload(1) EXCEPT !.ingredients = Some(<<salt, Sugar, salt>>),
                            !.steps = Some(<<step_m, step_k>>)],
     FailingPayload(1),
     [BarePayload(MaxCookbooks) EXCEPT !.ingredients = Some(<<salt>>)]}

ListPatches ==
    {[NoPayload EXCEPT !.ingredients = Some(<<>>)],
     [NoPayload EXCEPT !.ingredients = Some(<<salt>>)],
     [NoPayload EXCEPT !.steps = Some(<<>>)],
     [NoPayload EXCEPT !.steps = Some(<<step_k, step_m>>)],
     [NoPayload EXCEPT !.ingredients = Some(<<salt, Sugar, salt>>),
                       !.steps = Some(<<step_k, NULL>>)]}

ListsCreateRecipe ==
    \E p \in ListPayloads :
        /\ db.seq.recipes < MaxRecipes
        /\ Serve(Req("createRecipe", 0, <<>>, p), createRecipe(db, p))

ListsUpdateRecipe ==
    \E id \in RecipeIds, p \in ListPatches :
        Serve(Req("updateRecipe", id, <<>>, p), updateRecipe(db, id, p))

NextLists == ListsCreateRecipe \/ ListsUpdateRecipe

SpecLists == Init /\ [][NextLists]_vars

positionsOf(rows, recipeId) ==
    LET mine == rowsOf(rows, recipeId) IN [i \in 1..Len(mine) |-> mine[i].position]

\* the stored rows of `recipeId` are exactly the supplied ingredients, at
\* positions 0..n-1, each position once, read back in the supplied order
IngredientsAre(recipeId, list) ==
    LET pos == positionsOf(db.ingredients, recipeId)
        got == getRecipe(db, recipeId).ingredients
    IN /\ Len(pos) = Len(list)
       /\ Range(pos) = 0..(Len(list) - 1)
       /\ Len(got) = Len(list)
       /\ \A i \in 1..Len(list) :
            /\ got[i].line = ingredientLine(list[i])
            /\ list[i].kind = "obj" =>
                  /\ got[i].name = list[i].name
                  /\ got[i].quantity = list[i].quantity
                  /\ got[i].unit = list[i].unit

StepsAre(recipeId, list) ==
    LET pos == positionsOf(db.steps, recipeId)
        got == getRecipe(db, recipeId).steps
    IN /\ Len(pos) = Len(list)
       /\ Range(pos) = 0..(Len(list) - 1)
       /\ got = [i \in 1..Len(list) |-> Get(list[i])]

\* C1: after a successful createRecipe, and after a successful updateRecipe
\* whose patch includes ingredients (steps), the recipe's ingredient (step)
\* rows have positions exactly 0..n-1, no gap and no duplicate, n the length
\* of the supplied sequence, and getRecipe returns the items in the supplied
\* order; an empty sequence leaves zero rows.
C1_DensePositionsInSuppliedOrder ==
    /\ (req.op = "createRecipe" /\ resp.status = 200) =>
          /\ IngredientsAre(resp.id, orElse(req.payload.ingredients, <<>>))
          /\ StepsAre(resp.id, orElse(req.payload.steps, <<>>))
    /\ (req.op = "updateRecipe" /\ resp.status = 200) =>
          /\ ~IsNull(req.payload.ingredients) =>
                IngredientsAre(req.id, Get(req.payload.ingredients))
          /\ ~IsNull(req.payload.steps) => StepsAre(req.id, Get(req.payload.steps))

\* an update replaced a two-row ingredient list of a recipe by a three-row one
C1_Witness ==
    /\ req.op = "updateRecipe" /\ resp.status = 200
    /\ req.payload.steps = Some(<<step_k, step_m>>)
    /\ Len(rowsOf(db.ingredients, req.id)) = 3
    /\ Len(rowsOf(db.steps, req.id)) = 2

\* C2: when a statement of the write phase of createRecipe or updateRecipe
\* fails (the handler throws and the request ends 500), the store is exactly
\* what it was before the request: nothing of the partial writes remains.
C2_FailedWriteRollsBack ==
    [][(req'.op \in {"createRecipe", "updateRecipe"} /\ resp'.status = 500)
          => db' = db]_vars

\* an update whose step insert failed after its ingredient rows had been
\* replaced, on a recipe that keeps its former two ingredient rows
C2_Witness ==
    /\ req.op = "updateRecipe" /\ resp.status = 500
    /\ ~IsNull(req.payload.ingredients)
    /\ req.id \in recipeIds(db)
    /\ Len(rowsOf(db.ingredients, req.id)) = 2

\* ------------------------------------------- SpecUses: the usage counter
UsesCreateRecipe ==
    /\ db.seq.recipes < MaxRecipes
    /\ Serve(Req("createRecipe", 0, <<>>, BarePayload(1)), createRecipe(db, BarePayload(1)))

UsesDeleteRecipe ==
    \E id \in RecipeIds :
        Serve(Req("deleteRecipe", id, <<>>, NoPayload), deleteRecipe(db, id))

IncrementUses ==
    \E id \in RecipeIds :
        /\ id \in recipeIds(db) => recipeRow(db, id).uses < MaxUses
        /\ Serve(Req("incrementUses", id, <<>>, NoPayload), incrementUses(db, id))

DecrementUses ==
    \E id \in RecipeIds :
        Serve(Req("decrementUses", id, <<>>, NoPayload), decrementUses(db, id))

NextUses == UsesCreateRecipe \/ UsesDeleteRecipe \/ IncrementUses \/ DecrementUses

SpecUses == Init /\ [][NextUses]_vars

usesOf(d, id) == recipeRow(d, id).uses

\* C4: uses is never negative; on an existing recipe incrementUses stores
\* old+1 and decrementUses stores max(0, old-1), in one step, and each
\* answers 200 with the value that is now stored (so a decrement at 0
\* leaves 0 and succeeds); no other recipe's counter moves.
C4_UsesCounterFloor ==
    [][/\ \A r \in Range(db'.recipes) : r.uses >= 0
       /\ (req'.op \in {"incrementUses", "decrementUses"} /\ req'.id \in recipeIds(db)) =>
            /\ resp'.status = 200
            /\ recipeIds(db') = recipeIds(db)
            /\ usesOf(db', req'.id) =
                  IF req'.op = "incrementUses" THEN usesOf(db, req'.id) + 1
                  ELSE IF usesOf(db, req'.id) > 0 THEN usesOf(db, req'.id) - 1 ELSE 0
            /\ resp'.uses = usesOf(db', req'.id)
            /\ \A id \in recipeIds(db) \ {req'.id} : usesOf(db', id) = usesOf(db, id)
      ]_vars

\* a decrement answered 200 with uses 0 on a recipe whose counter is 0
\* while another recipe's counter stands at MaxUses
C4_Witness ==
    /\ req.op = "decrementUses" /\ resp.status = 200 /\ resp.uses = 0
    /\ usesOf(db, req.id) = 0
    /\ \E r \in Range(db.recipes) : r.uses = MaxUses

\* ------------------------------------------ SpecLedger: tags and likes
\* " t" and "t" trim to the same tag, "T" is never created; likewise for
\* the likers " x", "x" and "X".
LedgerCreateRecipe ==
    /\ db.seq.recipes < MaxRecipes
    /\ Serve(Req("createRecipe", 0, <<>>, BarePayload(1)), createRecipe(db, BarePayload(1)))

LedgerDeleteRecipe ==
    \E id \in RecipeIds :
        Serve(Req("deleteRecipe", id, <<>>, NoPayload), deleteRecipe(db, id))

AddTag ==
    \E id \in RecipeIds, n \in {<<"t">>, <<" ", "t">>} :
        Serve(Req("addTag", id, n, NoPayload), addTagToRecipe(db, id, n))

RemoveTag ==
    \E id \in RecipeIds, n \in {<<"t">>, <<"T">>} :
        Serve(Req("removeTag", id, n, NoPayload), removeTagFromRecipe(db, id, n))

AddLike ==
    \E id \in RecipeIds, n \in {<<"x">>, <<" ", "x">>} :
        Serve(Req("addLike", id, n, NoPayload), addLike(db, id, n))

RemoveLike ==
    \E id \in RecipeIds, n \in {<<"x">>, <<"X">>} :
        Serve(Req("removeLike", id, n, NoPayload), removeLike(db, id, n))

NextLedger ==
    \/ LedgerCreateRecipe \/ LedgerDeleteRecipe
    \/ AddTag \/ RemoveTag \/ AddLike \/ RemoveLike

SpecLedger == Init /\ [][NextLedger]_vars

likeNames(d, id) == LET rows == rowsOf(d.recipe_likes, id) IN [i \in 1..Len(rows) |-> rows[i].name]

countOf(names, n) == Cardinality({i \in 1..Len(names) : names[i] = n})

\* C5: a recipe never holds two likes whose names are equal after trimming;
\* addLike on an existing recipe succeeds and leaves exactly one like of the
\* trimmed name, changing nothing when that like was already there;
\* removeLike of a name that is not present succeeds and changes nothing.
C5_LikeIdempotent ==
    [][/\ \A id \in recipeIds(db') :
            LET names == likeNames(db', id) IN
            \A i, j \in 1..Len(names) : trim(names[i]) = trim(names[j]) => i = j
       /\ (req'.op = "addLike" /\ req'.id \in recipeIds(db)) =>
            /\ resp'.status = 200
            /\ countOf(likeNames(db', req'.id), trim(req'.name)) = 1
            /\ countOf(likeNames(db, req'.id), trim(req'.name)) = 1 => db' = db
       /\ (req'.op = "removeLike" /\ req'.id \in recipeIds(db)
              /\ countOf(likeNames(db, req'.id), req'.name) = 0) =>
            /\ resp'.status = 200
            /\ db' = db
      ]_vars

\* addLike(" x") answered 200 and both recipes hold exactly the like "x"
C5_Witness ==
    /\ req.op = "addLike" /\ req.name = <<" ", "x">> /\ resp.status = 200
    /\ recipeIds(db) = {1, 2}
    /\ \A id \in recipeIds(db) : likeNames(db, id) = <<<<"x">>>>

tagRowsNamed(d, name) == {i \in 1..Len(d.tags) : d.tags[i].name = name}

linked(d, id, name) ==
    \E t \in Range(d.tags) :
        t.name = name /\ [recipe_id |-> id, tag_id |-> t.id] \in d.recipe_tags

\* C6: no two tag rows carry the same name; addTag on an existing recipe
\* trims the name, leaves exactly one tag row of the trimmed name (none is
\* added when one existed) and the recipe linked to it, and changes nothing
\* when the link was already there; removeTag of a name that is unknown, or
\* known but not linked to the recipe, succeeds and changes nothing.
C6_TagIdempotent ==
    [][/\ \A i, j \in 1..Len(db'.tags) : db'.tags[i].name = db'.tags[j].name => i = j
       /\ (req'.op = "addTag" /\ req'.id \in recipeIds(db)) =>
            /\ resp'.status = 200
            /\ Cardinality(tagRowsNamed(db', trim(req'.name))) = 1
            /\ tagRowsNamed(db, trim(req'.name)) # {} => db'.tags = db.tags
            /\ linked(db', req'.id, trim(req'.name))
            /\ linked(db, req'.id, trim(req'.name)) => db' = db
       /\ (req'.op = "removeTag" /\ req'.id \in recipeIds(db)
              /\ ~linked(db, req'.id, req'.name)) =>
            /\ resp'.status = 200
            /\ db' = db
      ]_vars

\* addTag(" t") answered 200 on the second recipe: one tag row "t", linked
\* to both recipes
C6_Witness ==
    /\ req.op = "addTag" /\ req.name = <<" ", "t">> /\ resp.status = 200 /\ req.id = 2
    /\ Len(db.tags) = 1 /\ db.tags[1].name = <<"t">>
    /\ linked(db, 1, <<"t">>) /\ linked(db, 2, <<"t">>)

LedgerOps == {"addTag", "removeTag", "addLike", "removeLike"}

\* the request asks for what the store already holds
AlreadyInDesiredState(d, r) ==
    CASE r.op = "addTag" -> linked(d, r.id, trim(r.name))
      [] r.op = "removeTag" -> ~linked(d, r.id, r.name)
      [] r.op = "addLike" -> countOf(likeNames(d, r.id), trim(r.name)) = 1
      [] r.op = "removeLike" -> countOf(likeNames(d, r.id), r.name) = 0
      [] OTHER -> FALSE

\* C7: addTag, removeTag, addLike and removeLike with a well-formed id of
\* no recipe answer 404 and change no table (no tag row is created); on an
\* existing recipe that is already in the desired state they answer 200
\* and change nothing; 404 is answered only when the recipe is missing.
C7_NotFoundVersusNoOp ==
    [][(req'.op \in LedgerOps /\ req'.id > 0) =>
          /\ req'.id \notin recipeIds(db) => (resp'.status = 404 /\ db' = db)
          /\ (req'.id \in recipeIds(db) /\ AlreadyInDesiredState(db, req')) =>
                (resp'.status = 200 /\ db' = db)
          /\ resp'.status = 404 => req'.id \notin recipeIds(db)
      ]_vars

\* addTag answered 404 for a recipe that was deleted, while the other
\* recipe is linked to the tag
C7_Witness ==
    /\ req.op = "addTag" /\ resp.status = 404
    /\ req.id > 0 /\ req.id <= db.seq.recipes /\ req.id \notin recipeIds(db)
    /\ \E id \in recipeIds(db) : linked(db, id, <<"t">>)

\* C9: after createRecipe, and after an updateRecipe that replaces the
\* ingredients, every stored structured line with a non-blank name, and
\* every plain-string line, carries a non-null ingredient_id, and the id of
\* a named line is that of the catalog entry equal to its name ignoring
\* case.
C9_EveryLineLinked ==
    \A row \in Range(db.ingredients) :
        LET plain == IsNull(row.name) /\ IsNull(row.quantity) /\ IsNull(row.unit)
            named == ~IsNull(row.name) /\ trim(Get(row.name)) # <<>>
        IN /\ (named \/ plain) => ~IsNull(row.ingredient_id)
           /\ named =>
                \E e \in Range(db.ingredient_names) :
                    /\ row.ingredient_id = Some(e.id)
                    /\ LOWER(e.name) = LOWER(trim(Get(row.name)))

\* ------------------------------------------------ the ingredient catalog
\* The catalog as spec.md 4.3 describes it: a directory of names, unique
\* ignoring case, to which the write path links every ingredient line.

\* the id of the entry equal to `name` ignoring case, 0 when there is none
catalogIdOf(d, name) ==
    LET hits == {e.id : e \in {x \in Range(d.ingredient_names) : LOWER(x.name) = LOWER(name)}}
    IN IF hits = {} THEN 0 ELSE CHOOSE id \in hits : \A o \in hits : id <= o

insertCatalogEntry(d, name) ==
    LET id == d.seq.ingredient_names + 1 IN
    [d EXCEPT !.ingredient_names = Append(@, [id |-> id, name |-> name]),
              !.seq.ingredient_names = id]

\* a lookup that compares the spellings as they are
resolve_caseSensitive(d, name) ==
    LET hits == {e.id : e \in {x \in Range(d.ingredient_names) : x.name = name}} IN
    IF hits # {} THEN [db |-> d, id |-> CHOOSE id \in hits : \A o \in hits : id <= o]
    ELSE [db |-> insertCatalogEntry(d, name), id |-> d.seq.ingredient_names + 1]

\* resolve(name) -> catalog_id: look the name up ignoring case; create an
\* entry with the given spelling when none matches
resolve(d, name) ==
    IF catalogIdOf(d, name) # 0 THEN [db |-> d, id |-> catalogIdOf(d, name)]
    ELSE [db |-> insertCatalogEntry(d, name), id |-> d.seq.ingredient_names + 1]

\* the name a stored line is catalogued under: the name of a structured
\* line, the text of a plain-string line; <<>> when there is nothing to link
catalogNameOf(row) ==
    IF ~IsNull(row.name) THEN trim(Get(row.name))
    ELSE IF IsNull(row.quantity) /\ IsNull(row.unit) THEN trim(row.line)
    ELSE <<>>

\* linkLine(ingredientLineId, name): resolve the name and store the catalog
\* id on the line (`i` is the line's place in the table); no-op when blank
linkLine(d, i, name) ==
    IF name = <<>> THEN d
    ELSE LET r == resolve(d, name) IN
         [r.db EXCEPT !.ingredients[i].ingredient_id = Some(r.id)]

\* the lines of one recipe linked in the order they were written
RECURSIVE linkLines(_, _, _)
linkLines(d, recipeId, i) ==
    IF i > Len(d.ingredients) THEN d
    ELSE IF d.ingredients[i].recipe_id # recipeId THEN linkLines(d, recipeId, i + 1)
    ELSE linkLines(linkLine(d, i, catalogNameOf(d.ingredients[i])), recipeId, i + 1)

\* createRecipe with the ingredients linked into the catalog, in the same
\* transaction
createRecipeLinked(d, payload) ==
    LET out == createRecipe(d, payload) IN
    IF out.resp.status = 200
    THEN [out EXCEPT !.db = linkLines(out.db, out.resp.id, 1)]
    ELSE out

\* updateRecipe: the replaced ingredients are linked again
updateRecipeLinked(d, id, payload) ==
    LET out == updateRecipe(d, id, payload) IN
    IF out.resp.status = 200 /\ ~IsNull(payload.ingredients)
    THEN [out EXCEPT !.db = linkLines(out.db, id, 1)]
    ELSE out

\* s contains q as a contiguous piece
contains(s, q) == \E i \in 0..(Len(s) - Len(q)) : SubSeq(s, i + 1, i + Len(q)) = q

\* entry `e` is referenced by a line (of a recipe of cookbook `cookbookId`
\* when one is given)
referenced(d, e, cookbookId) ==
    \E row \in Range(d.ingredients) :
        /\ row.ingredient_id = Some(e.id)
        /\ ~IsNull(cookbookId) => recipeRow(d, row.recipe_id).cookbook_id = Get(cookbookId)

firstK(s, limit) == IF IsNull(limit) \/ Get(limit) >= Len(s) THEN s ELSE SubSeq(s, 1, Get(limit))

\* entry a is listed before entry b: ascending name ignoring case, then id
nameBefore(a, b) ==
    \/ textLess(LOWER(a.name), LOWER(b.name))
    \/ LOWER(a.name) = LOWER(b.name) /\ a.id < b.id

\* `acc` holds the first Len(acc) entries in order; the others are put in
RECURSIVE orderEntries(_, _)
orderEntries(entries, acc) ==
    IF Len(acc) = Len(entries) THEN acc
    ELSE orderEntries(entries,
            insertAt(acc, entries[Len(acc) + 1],
                     Cardinality({j \in 1..Len(acc) :
                                    nameBefore(acc[j], entries[Len(acc) + 1])})))

namesOf(entries) == [i \in 1..Len(entries) |-> entries[i].name]

\* the names in the order the entries were inserted
suggestionOrder_insertion(entries) == [i \in 1..Len(entries) |-> entries[i].name]

\* the names in ascending order ignoring case ("butter" before "Sugar"
\* although "Sugar" was written first)
suggestionOrder(entries) == namesOf(orderEntries(entries, <<>>))

\* the cookbook restriction dropped
suggestions_anyCookbook(d, cookbookId, query, limit) ==
    LET keep(e) == /\ referenced(d, e, NULL)
                   /\ ~IsNull(query) => contains(LOWER(e.name), LOWER(Get(query)))
    IN firstK(suggestionOrder(SelectSeq(d.ingredient_names, keep)), limit)

\* suggestions(cookbookId?, query?, limit?): the canonical names that are
\* referenced and contain the query, ordered, capped
suggestions(d, cookbookId, query, limit) ==
    LET keep(e) == /\ referenced(d, e, cookbookId)
                   /\ ~IsNull(query) => contains(LOWER(e.name), LOWER(Get(query)))
    IN firstK(suggestionOrder(SelectSeq(d.ingredient_names, keep)), limit)

\* GET /api/ingredients
listIngredientSuggestions(d, cookbookId, query, limit) ==
    suggestions(d, cookbookId, query, limit)

\* ------------------------------------ SpecCatalog: recipes and the catalog
\* Recipes are written, rewritten and deleted in two cookbooks with names
\* that differ in case only, a name used in one cookbook only, a blank name
\* and a plain-string line.
sugar == ObjIng(Some(<<"s">>), NULL, NULL, Some(<<"s">>))
SUGAR == ObjIng(Some(<<"S">>), NULL, NULL, Some(<<" ", "S">>))
Tea == ObjIng(NULL, Some(1), NULL, Some(<<"T">>))
unnamed == ObjIng(Some(<<"x">>), Some(1), NULL, Some(<<" ">>))

CatalogLists == {<<sugar>>, <<unnamed, SUGAR, salt>>, <<Tea, sugar>>}

CatalogPatches == {<<sugar>>, <<Tea, SUGAR>>}

CatalogCreateCookbook ==
    /\ db.seq.cookbooks < MaxCookbooks
    /\ Apply(createCookbook(db, <<"c">>))

CatalogCreateRecipe ==
    \E c \in 1..MaxCookbooks, l \in CatalogLists :
        /\ db.seq.recipes < MaxRecipes
        /\ Apply(createRecipeLinked(db, [BarePayload(c) EXCEPT !.ingredients = Some(l)]))

CatalogUpdateRecipe ==
    \E id \in 1..MaxRecipes, l \in CatalogPatches :
        Apply(updateRecipeLinked(db, id, [NoPayload EXCEPT !.ingredients = Some(l)]))

CatalogDeleteRecipe == \E id \in 1..MaxRecipes : Apply(deleteRecipe(db, id))

NextCatalog ==
    \/ CatalogCreateCookbook
    \/ CatalogCreateRecipe
    \/ CatalogUpdateRecipe
    \/ CatalogDeleteRecipe

SpecCatalog == Init /\ [][NextCatalog]_vars

CatalogNames == {<<"s">>, <<"S">>, <<"T">>}

catalogName(d, id) == (CHOOSE e \in Range(d.ingredient_names) : e.id = id).name

\* `first` is what resolving a name returned; resolving the case variant
\* `m` next returns the same id and the same store, and the entry reads
\* `spelling`
SecondResolve(first, m, spelling) ==
    /\ resolve(first.db, m) = first
    /\ catalogName(first.db, first.id) = spelling

\* resolving `n` in `d` and then its case variant `m`: a new entry is
\* spelled `n`, an entry that was there keeps its spelling
ResolvedTwice(d, n, m) ==
    SecondResolve(resolve(d, n), m,
                  IF catalogIdOf(d, n) = 0 THEN n ELSE catalogName(d, catalogIdOf(d, n)))

SuggestionCookbooks == {NULL} \cup {Some(c) : c \in 1..MaxCookbooks}
SuggestionQueries == {NULL, Some(<<"S">>), Some(<<"a">>)}
SuggestionLimits == {NULL, Some(1)}
\* the names `out` offered for cookbook c (NULL: any) are pairwise different
\* ignoring case, and each is the name of a catalog entry that a line of a
\* recipe (of that cookbook) refers to
DistinctAndReferenced(out, c) ==
    /\ \A i, j \in 1..Len(out) : LOWER(out[i]) = LOWER(out[j]) => i = j
    /\ \A i \in 1..Len(out) :
        \E e \in Range(db.ingredient_names), row \in Range(db.ingredients) :
            /\ e.name = out[i]
            /\ row.ingredient_id = Some(e.id)
            /\ row.recipe_id \in recipeIds(db)
            /\ ~IsNull(c) => recipeRow(db, row.recipe_id).cookbook_id = Get(c)


CappedAt(filtered, out, l) ==
    /\ IsNull(l) => out = filtered
    /\ ~IsNull(l) =>
         /\ Len(out) = IF Len(filtered) < Get(l) THEN Len(filtered) ELSE Get(l)
         /\ out = SubSeq(filtered, 1, Len(out))

\* `filtered`, the suggestions of cookbook c for the query q, holds the
\* names of `all` that contain q, in the order of `all`, and every limit
\* cuts it to its first names
FilteredAndCapped(all, filtered, c, q) ==
    LET has(n) == IsNull(q) \/ contains(LOWER(n), LOWER(Get(q))) IN
    /\ filtered = SelectSeq(all, has)
    /\ \A l \in SuggestionLimits :
          CappedAt(filtered, listIngredientSuggestions(db, c, q, l), l)

\* `all`, the suggestions of cookbook c without query and limit, is in
\* ascending order ignoring case, and every query filters it
OrderedFilteredCapped(all, c) ==
    /\ \A i \in 1..(Len(all) - 1) : textLess(LOWER(all[i]), LOWER(all[i + 1]))
    /\ \A q \in SuggestionQueries :
          FilteredAndCapped(all, listIngredientSuggestions(db, c, q, NULL), c, q)

SearchPayloads(c) ==
    {[BarePayload(c) EXCEPT !.title = Some(<<"B">>), !.ingredients = Some(<<salt>>)],
     [BarePayload(c) EXCEPT !.title = Some(<<"a", "%">>), !.description = Some(<<"k", "b">>)],
     [BarePayload(c) EXCEPT !.title = Some(<<"a">>), !.description = Some(<<"\\">>),
                            !.tags = Some(<<<<"T", "_">>>>)]}

SearchCreateCookbook ==
    /\ db.seq.cookbooks < MaxCookbooks
    /\ Apply(createCookbook(db, <<"c">>))

SearchCreateRecipe ==
    \E c \in 1..MaxCookbooks : \E p \in SearchPayloads(c) :
        /\ db.seq.recipes < MaxRecipes
        /\ Apply(createRecipe(db, p))

SearchRenameRecipe ==
    \E id \in 1..MaxRecipes :
        Apply(updateRecipe(db, id, [NoPayload EXCEPT !.title = Some(<<"A">>)]))

SearchAddLike == Apply(addLike(db, 1, <<"u", "M">>))

NextSearch ==
    \/ SearchCreateCookbook \/ SearchCreateRecipe \/ SearchRenameRecipe
    \/ SearchAddLike

SpecSearch == Init /\ [][NextSearch]_vars

BlankTerms == {NULL, Some(<<>>), Some(<<" ">>), Some(<<" ", " ">>)}

idsOf(page) == [i \in 1..Len(page.items) |-> page.items[i].recipe.id]

\* C12: in every state of the store, for every cookbook id (also an
\* unknown or an invalid one), searchRecipes with an absent, empty or
\* whitespace-only term returns the same reply as listRecipes.
C12_BlankSearchIsList ==
    \A c \in CookbookIds, q \in BlankTerms : searchRecipes(db, c, q) = listRecipes(db, c)

\* two recipes with a tag and a like are listed, "a" before "B", and the
\* search for "  " returns that list
C12_Witness ==
    /\ idsOf(listRecipes(db, 1)) = <<2, 1>>
    /\ listRecipes(db, 1).items[1].tags = {<<"T", "_">>}
    /\ listRecipes(db, 1).items[2].likes = <<<<"u", "M">>>>
    /\ searchRecipes(db, 1, Some(<<" ", " ">>)) = listRecipes(db, 1)

\* the non-blank, plain terms the search is asked for (after trimming they
\* have no character the LIKE pattern treats specially)
PlainTerms == {<<"s", "a">>, <<"S", "A">>, <<"b">>, <<"k">>, <<" ", "u", "m">>, <<"t">>, <<"x">>}

\* the texts of recipe r the search is said to look into
searchedTexts(d, r) ==
    {r.title, r.description}
        \cup tagsOf(d, r.id)
        \cup Range(likesOf(d, r.id))
        \cup {row.line : row \in {x \in Range(d.ingredients) : x.recipe_id = r.id}}
        \cup {e.name : e \in {x \in Range(d.ingredient_names) :
                \E row \in Range(d.ingredients) :
                    row.recipe_id = r.id /\ row.ingredient_id = Some(x.id)}}

\* the recipe ids of a page
idSet(page) == {page.items[i].recipe.id : i \in 1..Len(page.items)}

\* C13: for a non-blank term a recipe of the cookbook is in the search result
\* exactly when the trimmed, lowercased term is a substring of its title, its
\* description, one of its tag names, one of its liker names, or the line
\* text or catalog name of one of its ingredients
C13_SearchLooksIntoIngredients ==
    \A c \in 1..MaxCookbooks, q \in PlainTerms :
        idSet(searchRecipes(db, c, Some(q))) =
            {r.id : r \in {x \in Range(db.recipes) :
                /\ x.cookbook_id = c
                /\ \E t \in searchedTexts(db, x) : contains(LOWER(t), LOWER(trim(q)))}}

\* terms made of the characters a LIKE pattern treats specially
SpecialTerms == {<<"%">>, <<"_">>, <<"a", "%">>, <<"t", "_">>, <<"\\">>, <<"a", "\\">>}

\* the texts of recipe r the WHERE clause looks into
matchedTexts(d, r) ==
    {r.title, r.description} \cup tagsOf(d, r.id) \cup Range(likesOf(d, r.id))

\* C14: the term is literal text: a term holding %, _ or the escape
\* character \ (anywhere, the last place included) finds exactly the recipes
\* of the cookbook with a searched text that contains the term itself
C14_TermIsLiteral ==
    \A c \in 1..MaxCookbooks, q \in SpecialTerms :
        idSet(searchRecipes(db, c, Some(q))) =
            {r.id : r \in {x \in Range(db.recipes) :
                /\ x.cookbook_id = c
                /\ \E t \in matchedTexts(db, x) : contains(LOWER(t), LOWER(trim(q)))}}

\* item a stands before item b: lowercased titles in text order, equal
\* lowercased titles by id
standsBefore(a, b) ==
    \/ textLess(LOWER(a.recipe.title), LOWER(b.recipe.title))
    \/ /\ LOWER(a.recipe.title) = LOWER(b.recipe.title)
       /\ a.recipe.id < b.recipe.id

inTitleOrder(items) ==
    \A i, j \in 1..Len(items) : i < j => standsBefore(items[i], items[j])

OrderTerms == {<<"a">>, <<"A", " ">>, <<"b">>, <<"k">>, <<"%">>}

MaxListed == 202

\* the recipes are created with the title "a"; recipe 1 can be renamed "B"
CapCreateRecipe ==
    /\ db.seq.recipes < MaxListed
    /\ Apply(createRecipe(db, [BarePayload(1) EXCEPT !.title = Some(<<"a">>)]))

CapRenameRecipe ==
    \E t \in {<<"B">>, <<"a">>} :
        Apply(updateRecipe(db, 1, [NoPayload EXCEPT !.title = Some(t)]))

NextCap ==
    \/ CapCreateRecipe
    \/ CapRenameRecipe

SpecCap == Init /\ [][NextCap]_vars

\* the items of the list that the term "a" matches, in the list's order
matchingA(d, c) ==
    SelectSeq(listRecipes(d, c).items,
              LAMBDA item : \E t \in matchedTexts(d, item.recipe) : contains(LOWER(t), <<"a">>))

\* `found` holds the first SearchLimit items of `all`
firstOf(found, all) ==
    /\ Len(found) <= 200
    /\ found = IF Len(all) <= 200 THEN all ELSE SubSeq(all, 1, 200)

NoteTexts == {<<>>, <<" ">>, <<"n">>, <<" ", "n">>, <<"m", " ">>}

NotesCreateRecipe ==
    \E notes \in {NULL} \cup {Some(t) : t \in NoteTexts} :
        /\ db.seq.recipes < MaxRecipes
        /\ Apply(createRecipe(db, [BarePayload(1) EXCEPT !.notes = notes]))

NotesUpdateRecipe ==
    \E id \in RecipeIds :
        \E p \in {[NoPayload EXCEPT !.notes = Some(t)] : t \in NoteTexts}
                    \cup {[NoPayload EXCEPT !.description = Some(<<"k">>)]} :
            Apply(updateRecipe(db, id, p))

NotesDeleteRecipe == \E id \in RecipeIds : Apply(deleteRecipe(db, id))

NextNotes ==
    \/ NotesCreateRecipe
    \/ NotesUpdateRecipe
    \/ NotesDeleteRecipe

SpecNotes == Init /\ [][NextNotes]_vars

\* the notes rows a write of the text `notes` (NULL: no notes key) must
\* leave for recipe `id`
notesRowsFor(id, notes) ==
    IF IsNull(notes) \/ trim(Get(notes)) = <<>> THEN <<>>
    ELSE <<[recipe_id |-> id, content |-> Get(notes)]>>

\* C17: a recipe has at most one notes row and no notes row is blank;
\* create stores the notes only when they are non-blank after trimming; an
\* update that carries notes removes the row there is and stores the new
\* notes only when non-blank; getRecipe shows '' for a recipe without a row
\* and the stored text otherwise
C17_NotesRow ==
    /\ \A id \in recipeIds(db) :
          /\ Len(rowsOf(db.notes, id)) <= 1
          /\ getRecipe(db, id).notes =
                IF rowsOf(db.notes, id) = <<>> THEN <<>> ELSE rowsOf(db.notes, id)[1].content
          /\ \A t \in NoteTexts :
                rowsOf(updateRecipe(db, id, [NoPayload EXCEPT !.notes = Some(t)]).db.notes, id)
                    = notesRowsFor(id, Some(t))
    /\ \A row \in Range(db.notes) : trim(row.content) # <<>>
    /\ \A notes \in {NULL} \cup {Some(t) : t \in NoteTexts} :
          rowsOf(createRecipe(db, [BarePayload(1) EXCEPT !.notes = notes]).db.notes,
                 db.seq.recipes + 1)
              = notesRowsFor(db.seq.recipes + 1, notes)

\* recipe 2 got its notes, then recipe 1 was updated with the notes "m ":
\* its one row stands behind recipe 2's and holds the text as sent
C17_Witness ==
    /\ db.notes = <<[recipe_id |-> 2, content |-> <<" ", "n">>],
                    [recipe_id |-> 1, content |-> <<"m", " ">>]>>
    /\ getRecipe(db, 1).notes = <<"m", " ">>

(***************************************************************************)
(* Partial updates: PATCH /api/recipes/:id with some of the fields.        *)
(***************************************************************************)

photo_x == Some(Some(<<"x">>))

PatchPayloads ==
    {[FullPayload(1) EXCEPT !.photoDataUrl = photo_x],
     [BarePayload(1) EXCEPT !.photoDataUrl = photo_x, !.servings = Some(2)]}

Patches ==
    {NoPayload,
     [NoPayload EXCEPT !.photoDataUrl = Some(NULL)],
     [NoPayload EXCEPT !.title = Some(<<"T">>), !.servings = Some(2)],
     [NoPayload EXCEPT !.ingredients = Some(<<salt>>), !.notes = Some(<<" ">>)],
     [NoPayload EXCEPT !.description = Some(<<"k">>), !.author = Some(<<"b">>),
                       !.steps = Some(<<step_k, step_m>>),
                       !.photoDataUrl = Some(Some(<<"y">>))],
     [NoPayload EXCEPT !.ingredients = Some(<<>>), !.steps = Some(<<>>),
                       !.notes = Some(<<"m">>)]}

PatchCreateRecipe ==
    \E p \in PatchPayloads :
        /\ db.seq.recipes < MaxRecipes
        /\ Apply(createRecipe(db, p))

\* the patches go to recipe 1 (and to the id after the last recipe)
PatchUpdateRecipe ==
    \E id \in {1, MaxRecipes + 1}, p \in Patches : Apply(updateRecipe(db, id, p))

PatchAddLike == Apply(addLike(db, 1, <<"x">>))

NextPatch ==
    \/ PatchCreateRecipe
    \/ PatchUpdateRecipe
    \/ PatchAddLike

SpecPatch == Init /\ [][NextPatch]_vars

\* a scalar field after a patch: the patch value when present
patched(prior, field) == IF IsNull(field) THEN prior ELSE Get(field)

\* the ingredient line texts / the step texts of a payload list
linesOf(list) == [i \in 1..Len(list) |-> ingredientLine(list[i])]
textsOf(list) == [i \in 1..Len(list) |-> Get(list[i])]

\* recipe `id` as getRecipe shows it after the patch p, given how it
\* showed it before: what the patch holds is taken over, the rest is kept
PatchedView(before, after, p) ==
    /\ after.recipe =
          [before.recipe EXCEPT
             !.title = patched(@, p.title),
             !.description = patched(@, p.description),
             !.author = patched(@, p.author),
             !.photo = patched(@, p.photoDataUrl),
             !.servings = patched(@, p.servings)]
    /\ IF IsNull(p.ingredients) THEN after.ingredients = before.ingredients
       ELSE [i \in 1..Len(after.ingredients) |-> after.ingredients[i].line]
                = linesOf(Get(p.ingredients))
    /\ after.steps = IF IsNull(p.steps) THEN before.steps ELSE textsOf(Get(p.steps))
    /\ after.notes = IF IsNull(p.notes) THEN before.notes
                     ELSE IF trim(Get(p.notes)) = <<>> THEN <<>> ELSE Get(p.notes)
    /\ after.tags = before.tags
    /\ after.likes = before.likes

\* the database `d2` after the patch p of recipe `id` in database `d`
PatchedOnly(d, d2, id, p) ==
    /\ PatchedView(getRecipe(d, id), getRecipe(d2, id), p)
    /\ recipeIds(d2) = recipeIds(d)
    /\ \A other \in recipeIds(d) \ {id} : getRecipe(d2, other) = getRecipe(d, other)
    /\ d2.cookbooks = d.cookbooks

\* C18: updateRecipe changes exactly what the patch holds: a scalar that is
\* present takes the patch value ({photoDataUrl: null} clears the photo),
\* ingredients, steps and notes that are present are replaced as a whole,
\* and what is absent, like every other recipe, stays as it was
C18_PatchChangesOnlyWhatItHolds ==
    \A id \in recipeIds(db), p \in Patches :
        /\ updateRecipe(db, id, p).resp.status = 200
        /\ PatchedOnly(db, updateRecipe(db, id, p).db, id, p)

\* recipe 1 was created with a photo, notes, a tag, two ingredients; it
\* then lost the photo and got a new title, and still has the rest
C18_Witness ==
    /\ recipeIds(db) = {1, 2}
    /\ recipeRow(db, 1).photo = NULL
    /\ recipeRow(db, 1).title = <<"T">>
    /\ getRecipe(db, 1).notes = <<"n">>
    /\ Len(getRecipe(db, 1).ingredients) = 2
    /\ getRecipe(db, 1).likes = <<<<"x">>>>
    /\ recipeRow(db, 2).photo = Some(<<"x">>)

(***************************************************************************)
(* Operations on ids that are not, or no longer, in the store.             *)
(***************************************************************************)

MissingCreateCookbook ==
    /\ db.seq.cookbooks < MaxCookbooks
    /\ Serve(Req("createCookbook", 0, <<"c">>, NoPayload), createCookbook(db, <<"c">>))

MissingCreateRecipe ==
    /\ db.seq.recipes < MaxRecipes
    /\ Serve(Req("createRecipe", 0, <<>>, BarePayload(1)), createRecipe(db, BarePayload(1)))

\* the writes go to the first id and to the id after the last one, the
\* deletes to every id
MissingRenameCookbook ==
    \E id \in {1, MaxCookbooks + 1} :
        Serve(Req("renameCookbook", id, <<"b">>, NoPayload), renameCookbook(db, id, <<"b">>))

MissingDeleteCookbook ==
    \E id \in 1..(MaxCookbooks + 1) :
        Serve(Req("deleteCookbook", id, <<>>, NoPayload), deleteCookbook(db, id))

MissingUpdateRecipe ==
    \E id \in {1, MaxRecipes + 1} :
        LET p == [NoPayload EXCEPT !.title = Some(<<"T">>)] IN
        Serve(Req("updateRecipe", id, <<>>, p), updateRecipe(db, id, p))

MissingDeleteRecipe ==
    \E id \in 1..(MaxRecipes + 1) :
        Serve(Req("deleteRecipe", id, <<>>, NoPayload), deleteRecipe(db, id))

MissingIncrementUses ==
    \E id \in {1, MaxRecipes + 1} :
        /\ id \in recipeIds(db) => recipeRow(db, id).uses < MaxUses
        /\ Serve(Req("incrementUses", id, <<>>, NoPayload), incrementUses(db, id))

MissingDecrementUses ==
    \E id \in {1, MaxRecipes + 1} :
        Serve(Req("decrementUses", id, <<>>, NoPayload), decrementUses(db, id))

NextMissing ==
    \/ MissingCreateCookbook
    \/ MissingCreateRecipe
    \/ MissingRenameCookbook
    \/ MissingDeleteCookbook
    \/ MissingUpdateRecipe
    \/ MissingDeleteRecipe
    \/ MissingIncrementUses
    \/ MissingDecrementUses

SpecMissing == Init /\ [][NextMissing]_vars

\* the operations of the claim on recipe id / cookbook id, from database d
recipeOps(d, id) ==
    {updateRecipe(d, id, [NoPayload EXCEPT !.title = Some(<<"T">>)]),
     updateRecipe(d, id, NoPayload),
     deleteRecipe(d, id),
     incrementUses(d, id),
     decrementUses(d, id)}

cookbookOps(d, id) == {renameCookbook(d, id, <<"b">>), deleteCookbook(d, id)}

\* C19: updateRecipe, deleteRecipe, incrementUses, decrementUses on a recipe
\* id that is not in the store, and renameCookbook, deleteCookbook on a
\* cookbook id that is not in the store, answer not-found and leave every
\* table as it was; deleting a recipe or a cookbook succeeds the first time
\* and answers not-found the second time
C19_MissingIsNotFound ==
    /\ \A id \in (1..(MaxRecipes + 1)) \ recipeIds(db) :
          \A out \in recipeOps(db, id) : out = notFound(db)
    /\ \A id \in (1..(MaxCookbooks + 1)) \ cookbookIds(db) :
          \A out \in cookbookOps(db, id) : out = notFound(db)
    /\ \A id \in recipeIds(db) :
          /\ deleteRecipe(db, id).resp.status = 200
          /\ deleteRecipe(deleteRecipe(db, id).db, id) = notFound(deleteRecipe(db, id).db)
    /\ \A id \in cookbookIds(db) :
          /\ deleteCookbook(db, id).resp.status = 200
          /\ deleteCookbook(deleteCookbook(db, id).db, id) = notFound(deleteCookbook(db, id).db)
    /\ (req.op \in {"updateRecipe", "deleteRecipe", "incrementUses", "decrementUses"}
            /\ resp.status = 200) => req.id <= db.seq.recipes
    /\ (req.op \in {"renameCookbook", "deleteCookbook"} /\ resp.status = 200)
            => req.id <= db.seq.cookbooks

\* recipe 1 was created and deleted, then deleted once more: the answer is
\* not-found and recipe 2 is still there
C19_Witness ==
    /\ req.op = "deleteRecipe"
    /\ req.id = 1
    /\ resp.status = 404
    /\ db.seq.recipes = 2
    /\ recipeIds(db) = {2}

\* cookbook 2 was created and deleted, then deleted once more
C19_WitnessCookbook ==
    /\ req.op = "deleteCookbook"
    /\ req.id = 2
    /\ resp.status = 404
    /\ db.seq.cookbooks = 2
    /\ cookbookIds(db) = {1}

(***************************************************************************)
(* Names and titles: requests with blank names, blank titles and the id 0. *)
(***************************************************************************)

NameTexts == {<<>>, <<" ">>, <<"c">>, <<" ", "b", " ">>}

NamesCreateCookbook ==
    \E name \in NameTexts :
        /\ db.seq.cookbooks < MaxCookbooks
        /\ Apply(createCookbook(db, name))

NamesRenameCookbook ==
    \E id \in CookbookIds, name \in NameTexts : Apply(renameCookbook(db, id, name))

NamesCreateRecipe ==
    \E c \in {0, 1}, title \in {NULL} \cup {Some(t) : t \in NameTexts} :
        /\ db.seq.recipes < MaxRecipes
        /\ Apply(createRecipe(db, [NoPayload EXCEPT !.cookbook_id = c, !.title = title]))

NamesUpdateRecipe ==
    \E id \in RecipeIds, title \in NameTexts :
        Apply(updateRecipe(db, id, [NoPayload EXCEPT !.title = Some(title)]))

NextNames ==
    \/ NamesCreateCookbook
    \/ NamesRenameCookbook
    \/ NamesCreateRecipe
    \/ NamesUpdateRecipe

SpecNames == Init /\ [][NextNames]_vars

\* C20: requests with a blank name or title are turned down before any
\* write, so after any sequence of createCookbook, renameCookbook,
\* createRecipe and updateRecipe every stored cookbook name and every stored
\* recipe title is non-blank after trimming
C20_StoredNamesNonBlank ==
    /\ \A c \in Range(db.cookbooks) : trim(c.name) # <<>>
    /\ \A r \in Range(db.recipes) : trim(r.title) # <<>>

(***************************************************************************)
(* Startup: db.exec(schema), the four ensureColumn calls, the default      *)
(* cookbook seed.  The store file carries, next to its rows, the set of    *)
(* the later-added columns it has (`columns`).                             *)
(***************************************************************************)

\* recipes.servings, ingredients.quantity, ingredients.unit, ingredients.name
EnsuredColumns == <<"servings", "quantity", "unit", "name">>

\* a store file with the rows of d and the columns `cols`
storeFile(d, cols) == d @@ [columns |-> cols]

\* ensureColumn of the later revision of the server: the catch block logs
\* and rethrows
ensureColumn_rethrow(f, column, broken) ==
    IF column \in f.columns THEN [db |-> f, threw |-> FALSE]
    ELSE IF column \in broken THEN [db |-> f, threw |-> TRUE]
    ELSE [db |-> [f EXCEPT !.columns = @ \cup {column}], threw |-> FALSE]

\* ensureColumn(table, column, def): `broken` holds the columns whose ALTER
\* TABLE fails.  The catch block is empty, so nothing leaves the function.
ensureColumn(f, column, broken) ==
    IF column \in f.columns THEN [db |-> f, threw |-> FALSE]
    ELSE IF column \in broken THEN [db |-> f, threw |-> FALSE]
    ELSE [db |-> [f EXCEPT !.columns = @ \cup {column}], threw |-> FALSE]

\* the ensureColumn calls from the i-th on, until one throws
RECURSIVE ensureColumnsFrom(_, _, _)
ensureColumnsFrom(f, i, broken) ==
    IF i > Len(EnsuredColumns) THEN [db |-> f, threw |-> FALSE]
    ELSE LET one == ensureColumn(f, EnsuredColumns[i], broken) IN
         IF one.threw THEN one ELSE ensureColumnsFrom(one.db, i + 1, broken)

\* the process is up and serves / the module threw and the process is gone
serving(f) == Reply(f, 200, 0, 0)
down(f) == Reply(f, 0, 0, 0)

\* the top-level statements of the server module, up to app.listen
startup(f, broken) ==
    LET ensured == ensureColumnsFrom(f, 1, broken) IN
    IF ensured.threw THEN down(ensured.db)
    ELSE serving(seedDefaultCookbook(ensured.db))

\* the store files a first start can find: a new file gets every column
\* from the schema, a file of an older version lacks some
BootInit ==
    /\ db \in {storeFile(EmptyDb, cols) : cols \in SUBSET Range(EnsuredColumns)}
    /\ req = Req("stop", 0, <<>>, {})
    /\ resp = down(db).resp
    /\ run = Idle
    /\ client = NoClient

BrokenColumns == {{}, {"unit"}, {"servings", "name"}}

BootStart ==
    \E broken \in BrokenColumns :
        /\ resp.status = 0
        /\ Serve(Req("boot", 0, <<>>, broken), startup(db, broken))

BootStop ==
    /\ resp.status # 0
    /\ Serve(Req("stop", 0, <<>>, {}), down(db))

BootCreateCookbook ==
    /\ resp.status # 0
    /\ db.seq.cookbooks < MaxCookbooks
    /\ Serve(Req("createCookbook", 0, <<"c">>, {}), createCookbook(db, <<"c">>))

BootDeleteCookbook ==
    \E id \in 1..(MaxCookbooks + 1) :
        /\ resp.status # 0
        /\ Serve(Req("deleteCookbook", id, <<>>, {}), deleteCookbook(db, id))

NextBoot ==
    \/ BootStart
    \/ BootStop
    \/ BootCreateCookbook
    \/ BootDeleteCookbook

SpecBoot == BootInit /\ [][NextBoot]_vars

\* C21: a start inserts the cookbook "My First Cookbook" exactly when the
\* cookbook table is empty: a start on a store with one or more cookbooks
\* leaves every row as it was, a start on a store without cookbooks adds
\* that one cookbook and nothing else; after the first start there is
\* exactly one cookbook
C21_SeedOnlyWhenEmpty ==
    [][(req'.op = "boot" /\ resp'.status = 200) =>
          /\ db.cookbooks # <<>> =>
                \A t \in DOMAIN EmptyDb : db'[t] = db[t]
          /\ db.cookbooks = <<>> =>
                /\ db'.cookbooks = <<[id |-> db.seq.cookbooks + 1,
                                      name |-> DefaultCookbookName]>>
                /\ \A t \in DOMAIN EmptyDb \ {"cookbooks", "seq"} : db'[t] = db[t]
          /\ db.seq.cookbooks = 0 => Len(db'.cookbooks) = 1]_vars

\* the server was started again on a store that held two cookbooks, and
\* holds the same two
C21_Witness ==
    /\ req.op = "boot"
    /\ resp.status = 200
    /\ Len(db.cookbooks) = 2
    /\ db.cookbooks[1].name = DefaultCookbookName

\* the server was started on a store whose cookbooks had all been deleted
C21_WitnessReseed ==
    /\ req.op = "boot"
    /\ resp.status = 200
    /\ db.cookbooks = <<[id |-> 2, name |-> DefaultCookbookName]>>

\* C22: when adding a missing column fails, the start is aborted: the
\* server never serves on a store that lacks one of the columns
C22_NoServingOnUnverifiedStore ==
    resp.status # 0 => db.columns = Range(EnsuredColumns)

\* ------------------------------------------------- requests in flight
\* PATCH /api/recipes/:id and GET /api/recipes/:id, statement by statement.
\* All handlers share the one connection `db`; a SELECT on it sees the rows
\* an open transaction has written.  The handlers are synchronous
\* callbacks, so the event loop runs the one it has taken to its return
\* before it takes the next request.
TxInitial == <<salt, Sugar, salt>>
TxLists == [A |-> <<Sugar, salt>>, B |-> <<salt, Sugar>>]
Updates == DOMAIN TxLists
Requests == Updates \cup {"G"}
TxPayload(r) == [NoPayload EXCEPT !.ingredients = Some(TxLists[r])]

resting == [pc |-> "idle", i |-> 0]

\* may the handler of request r execute its next statement?
turnOf_yielding(rn, r) == TRUE

turnOf(rn, r) == \A o \in Requests \ {r} : rn.at[o].pc = "idle"

\* the ingredient lines GET /api/recipes/:id answers with
servedLines(d, id) ==
    LET reply == getRecipe(d, id).ingredients IN
    [i \in 1..Len(reply) |-> reply[i].line]

TxInit ==
    /\ db = createRecipe(seedDefaultCookbook(EmptyDb),
                         [NoPayload EXCEPT !.cookbook_id = 1,
                                           !.title = Some(<<"T">>),
                                           !.ingredients = Some(TxInitial)]).db
    /\ req = NoReq
    /\ resp = [status |-> 200, id |-> 0, uses |-> 0]
    /\ run = [inflight |-> {}, at |-> [r \in Requests |-> resting],
              before |-> db, seen |-> NULL, committed |-> {}, last |-> NULL]
    /\ client = NoClient

\* a request reaches the server
TxArrive ==
    \E r \in Requests :
        /\ r \notin run.inflight
        /\ run.at[r].pc = "idle"
        /\ run' = [run EXCEPT !.inflight = @ \cup {r}]
        /\ UNCHANGED <<db, req, resp, client>>

\* GET /api/recipes/:id: SELECT ... FROM ingredients WHERE recipe_id=?
TxGet ==
    /\ "G" \in run.inflight
    /\ turnOf(run, "G")
    /\ run' = [run EXCEPT !.inflight = @ \ {"G"},
                          !.seen = Some(servedLines(db, 1))]
    /\ UNCHANGED <<db, req, resp, client>>

\* PATCH: the recipe exists; runTransaction executes BEGIN TRANSACTION
TxBegin ==
    \E r \in Updates :
        /\ r \in run.inflight
        /\ turnOf(run, r)
        /\ 1 \in recipeIds(db)
        /\ run' = [run EXCEPT !.inflight = @ \ {r},
                              !.at[r] = [pc |-> "delete", i |-> 0],
                              !.before = db]
        /\ UNCHANGED <<db, req, resp, client>>

\* DELETE FROM ingredients WHERE recipe_id=?
TxDelete ==
    \E r \in Updates :
        /\ run.at[r].pc = "delete"
        /\ turnOf(run, r)
        /\ db' = [db EXCEPT !.ingredients = deleteWhereRecipe(@, 1)]
        /\ run' = [run EXCEPT !.at[r] = [pc |-> "insert", i |-> 1]]
        /\ UNCHANGED <<req, resp, client>>

\* one stmt.run of insertIngredients
TxInsert ==
    \E r \in Updates :
        /\ run.at[r].pc = "insert"
        /\ turnOf(run, r)
        /\ run.at[r].i <= Len(TxLists[r])
        /\ db' = [db EXCEPT !.ingredients =
                     Append(@, ingredientRow(1, TxLists[r][run.at[r].i],
                                             run.at[r].i - 1))]
        /\ run' = [run EXCEPT !.at[r].i = @ + 1]
        /\ UNCHANGED <<req, resp, client>>

\* COMMIT, and the handler returns { ok: true }
TxCommit ==
    \E r \in Updates :
        /\ run.at[r].pc = "insert"
        /\ turnOf(run, r)
        /\ run.at[r].i > Len(TxLists[r])
        /\ run' = [run EXCEPT !.at[r] = resting,
                              !.committed = @ \cup {r},
                              !.last = Some(r)]
        /\ UNCHANGED <<db, req, resp, client>>

NextTx == TxArrive \/ TxGet \/ TxBegin \/ TxDelete \/ TxInsert \/ TxCommit

SpecTx == TxInit /\ [][NextTx]_vars

WholeLists == {linesOf(TxInitial)} \cup {linesOf(TxLists[r]) : r \in Updates}

\* C23: requests that replace and read the ingredient list of one recipe
\* are served one after the other: a reader is answered with the whole
\* list of one request (or the list the recipe had), never with a list
\* under replacement, and once no update is under way the stored list is
\* the list of the update that committed last, as the handler run in one
\* step on the database found at BEGIN leaves it
C23_RequestsSerialize ==
    /\ ~IsNull(run.seen) => Get(run.seen) \in WholeLists
    /\ (\A r \in Updates : run.at[r].pc = "idle") =>
          /\ IsNull(run.last) => servedLines(db, 1) = linesOf(TxInitial)
          /\ ~IsNull(run.last) =>
                /\ servedLines(db, 1) = linesOf(TxLists[Get(run.last)])
                /\ db = updateRecipe(run.before, 1, TxPayload(Get(run.last))).db

\* both updates have committed, A last; a reader was answered with B's list
\* in between; B is under way again while A and a reader wait
C23_Witness ==
    /\ run.committed = Updates
    /\ run.last = Some("A")
    /\ run.seen = Some(linesOf(TxLists["B"]))
    /\ run.at["B"].pc = "insert"
    /\ run.at["B"].i = 2
    /\ {"A", "G"} \subseteq run.inflight

\* ------------------------------------------------ the recipe list filter
\* String.prototype.localeCompare under the default (ICU root) collation
\* for the letters used here: the letters decide without regard to case,
\* a proper prefix comes first, and of two texts that differ in case only
\* the one with the lower-case letter at the first difference comes first.
localeCompare(a, b) ==
    LET la == LOWER(a)
        lb == LOWER(b)
    IN IF textLess(la, lb) THEN -1
       ELSE IF textLess(lb, la) THEN 1
       ELSE IF a = b THEN 0
       ELSE LET i == CHOOSE k \in 1..Len(a) :
                        a[k] # b[k] /\ \A j \in 1..(k - 1) : a[j] = b[j]
            IN IF a[i] = lowerChar(a[i]) THEN -1 ELSE 1

includes(haystack, n) == \E i \in 1..Len(haystack) : haystack[i] = n

matchesValues_anyMode(haystack, needles, mode) ==
    \/ Len(needles) = 0
    \/ \E i \in 1..Len(needles) : includes(haystack, needles[i])

matchesValues(haystack, needles, mode) ==
    IF Len(needles) = 0 THEN TRUE
    ELSE IF mode = "AND" THEN \A i \in 1..Len(needles) : includes(haystack, needles[i])
    ELSE \E i \in 1..Len(needles) : includes(haystack, needles[i])

\* the comparator handed to Array.prototype.sort
compareRecipes_usesOnly(sortMode, a, b) ==
    IF sortMode = "AZ" THEN localeCompare(a.title, b.title)
    ELSE IF sortMode = "ZA" THEN localeCompare(b.title, a.title)
    ELSE IF sortMode = "MOST" THEN b.uses - a.uses
    ELSE 0

compareRecipes(sortMode, a, b) ==
    IF sortMode = "AZ" THEN localeCompare(a.title, b.title)
    ELSE IF sortMode = "ZA" THEN localeCompare(b.title, a.title)
    ELSE IF sortMode = "MOST"
         THEN IF b.uses - a.uses # 0 THEN b.uses - a.uses
              ELSE localeCompare(a.title, b.title)
    ELSE 0

\* Array.prototype.sort is stable: an element goes behind every element
\* the comparator does not put after it
RECURSIVE sortRecipes(_, _, _)
sortRecipes(rows, sortMode, acc) ==
    IF Len(rows) = 0 THEN acc
    ELSE LET x == rows[1]
             behind == Cardinality({k \in 1..Len(acc) :
                                      compareRecipes(sortMode, acc[k], x) <= 0})
         IN sortRecipes(Tail(rows), sortMode,
                        SubSeq(acc, 1, behind) \o <<x>> \o SubSeq(acc, behind + 1, Len(acc)))

filterAndSortRecipes(recipes, options) ==
    LET pass(r) == /\ matchesValues(r.tags, options.selectedTags, options.tagMode)
                   /\ matchesValues(r.ingredientNames, options.selectedIngredients,
                                    options.ingredientMode)
        filtered == SelectSeq(recipes, pass)
    IN sortRecipes(filtered, options.sortMode, <<>>)

\* the recipes a cookbook may hold, after the fixture of filters.test.ts
Filterable(id, title, uses, tags, ingredientNames) ==
    [id |-> id, title |-> title, uses |-> uses, tags |-> tags,
     ingredientNames |-> ingredientNames]

FilterPool ==
    {Filterable(1, <<"a">>, 2, <<"v">>, <<"g", "s">>),
     Filterable(2, <<"b">>, 1, <<"i">>, <<"g">>),
     Filterable(3, <<"B">>, 2, <<"v", "i">>, <<"g", "t">>),
     Filterable(4, <<"a">>, 1, <<>>, <<"t">>)}

MaxShown == 3

RECURSIVE arraysOf(_, _)
arraysOf(pool, n) ==
    IF n = 0 THEN {<<>>}
    ELSE LET shorter == arraysOf(pool, n - 1) IN
         shorter \cup {Append(s, r) : s \in shorter, r \in pool}

FilterArrays ==
    {s \in arraysOf(FilterPool, MaxShown) :
        \A i, j \in 1..Len(s) : i # j => s[i].id # s[j].id}

optionsOf(c) ==
    [selectedTags |-> c.selectedTags, tagMode |-> c.tagMode,
     selectedIngredients |-> c.selectedIngredients,
     ingredientMode |-> c.ingredientMode, sortMode |-> c.sortMode]

\* const filtered = useMemo(...); useEffect(() => setRecipes(filtered))
render(c) == [c EXCEPT !.recipes = filterAndSortRecipes(c.allRecipes, optionsOf(c))]

toggle(list, v) ==
    LET other(x) == x # v IN
    IF includes(list, v) THEN SelectSeq(list, other) ELSE Append(list, v)

FilterInit ==
    /\ db = seedDefaultCookbook(EmptyDb)
    /\ req = NoReq
    /\ resp = [status |-> 200, id |-> 0, uses |-> 0]
    /\ run = Idle
    /\ client = [data |-> <<>>, allRecipes |-> <<>>, recipes |-> <<>>,
                 selectedTags |-> <<>>, tagMode |-> "AND",
                 selectedIngredients |-> <<>>, ingredientMode |-> "AND",
                 sortMode |-> "AZ"]

\* setAllRecipes(data)
FilterLoad ==
    \E data \in FilterArrays :
        /\ client' = render([client EXCEPT !.data = data, !.allRecipes = data])
        /\ UNCHANGED <<db, req, resp, run>>

FilterToggleTag ==
    \E t \in {"v", "i"} :
        /\ client' = render([client EXCEPT !.selectedTags = toggle(@, t)])
        /\ UNCHANGED <<db, req, resp, run>>

FilterToggleIngredient ==
    \E n \in {"g", "t"} :
        /\ client' = render([client EXCEPT !.selectedIngredients = toggle(@, n)])
        /\ UNCHANGED <<db, req, resp, run>>

FilterSetTagMode ==
    \E m \in {"AND", "OR"} :
        /\ client' = render([client EXCEPT !.tagMode = m])
        /\ UNCHANGED <<db, req, resp, run>>

FilterSetIngredientMode ==
    \E m \in {"AND", "OR"} :
        /\ client' = render([client EXCEPT !.ingredientMode = m])
        /\ UNCHANGED <<db, req, resp, run>>

FilterSetSortMode ==
    \E m \in {"AZ", "ZA", "MOST"} :
        /\ client' = render([client EXCEPT !.sortMode = m])
        /\ UNCHANGED <<db, req, resp, run>>

NextFilter ==
    \/ FilterLoad \/ FilterToggleTag \/ FilterToggleIngredient
    \/ FilterSetTagMode \/ FilterSetIngredientMode \/ FilterSetSortMode

SpecFilter == FilterInit /\ [][NextFilter]_vars

\* the filter of the claim, stated on sets
passes(r, c) ==
    /\ \/ c.selectedTags = <<>>
       \/ c.tagMode = "AND" /\ Range(c.selectedTags) \subseteq Range(r.tags)
       \/ c.tagMode = "OR" /\ Range(c.selectedTags) \cap Range(r.tags) # {}
    /\ \/ c.selectedIngredients = <<>>
       \/ c.ingredientMode = "AND"
            /\ Range(c.selectedIngredients) \subseteq Range(r.ingredientNames)
       \/ c.ingredientMode = "OR"
            /\ Range(c.selectedIngredients) \cap Range(r.ingredientNames) # {}

inOrder(mode, a, b) ==
    CASE mode = "AZ" -> localeCompare(a.title, b.title) <= 0
      [] mode = "ZA" -> localeCompare(a.title, b.title) >= 0
      [] mode = "MOST" -> \/ a.uses > b.uses
                          \/ a.uses = b.uses /\ localeCompare(a.title, b.title) <= 0

\* C24: the list shown holds exactly the loaded recipes that pass the tag
\* filter and the ingredient filter (an empty selection passes all, AND
\* asks for every selected value, OR for one of them), each once, in the
\* order of the sort mode (AZ by title ascending, ZA descending, MOST by
\* uses descending and title ascending among equal uses); the loaded array
\* is as it was received
C24_FilterAndSort ==
    /\ Range(client.recipes) = {r \in Range(client.data) : passes(r, client)}
    /\ \A i, j \in 1..Len(client.recipes) :
          i < j => /\ client.recipes[i].id # client.recipes[j].id
                   /\ inOrder(client.sortMode, client.recipes[i], client.recipes[j])
    /\ client.allRecipes = client.data

\* three recipes loaded backwards, an AND tag filter and an OR ingredient
\* filter that drop one of them, most-used first with a tie on uses
C24_Witness ==
    /\ Len(client.data) = 3
    /\ client.sortMode = "MOST"
    /\ client.tagMode = "AND" /\ client.selectedTags = <<"v">>
    /\ client.ingredientMode = "OR" /\ Len(client.selectedIngredients) = 2
    /\ Len(client.recipes) = 2
    /\ client.recipes[1].uses = client.recipes[2].uses
    /\ client.data[1] = client.recipes[2]

\* ------------------------------------------------- App: loading recipes
\* The store the page is opened on: two cookbooks, recipes "a" and "b" in
\* the first, "a" in the second.
AppRecipe(cookbookId, title) ==
    [NoPayload EXCEPT !.cookbook_id = cookbookId, !.title = Some(title)]

AppDb ==
    LET d1 == createCookbook(seedDefaultCookbook(EmptyDb), <<"T">>).db
        d2 == createRecipe(d1, AppRecipe(1, <<"b">>)).db
        d3 == createRecipe(d2, AppRecipe(1, <<"a">>)).db
    IN createRecipe(d3, AppRecipe(2, <<"a">>)).db

MaxFetches == 3

\* reload(overrideQuery) of the render in which activeCookbook is
\* `cookbook`: the request it sends, if any
reload(cookbook, q) ==
    IF IsNull(cookbook) THEN NULL
    ELSE Some([cookbookId |-> Get(cookbook), q |-> trim(q)])

\* q ? searchRecipes(activeCookbook, q) : getRecipes(activeCookbook)
answer(d, r) ==
    IF r.q # <<>> THEN searchRecipes(d, r.cookbookId, Some(r.q)).items
    ELSE listRecipes(d, r.cookbookId).items

\* fetch: the request is in flight
send(c, request) ==
    IF IsNull(request) THEN c
    ELSE [c EXCEPT !.inflight = @ \cup {Get(request)}, !.fetches = @ + 1]

sends(c, request) == IsNull(request) \/ c.fetches < MaxFetches

\* setTimeout(() => { reload(query); }, 200), after clearTimeout of the
\* timer of the previous render
debounce(c) == [c EXCEPT !.timer = Some([cookbook |-> c.activeCookbook, query |-> c.query])]

\* the state after the first render and its effects: no cookbook is
\* active, reload() returned at once, the first timer is pending
AppInit ==
    /\ db = AppDb
    /\ req = NoReq
    /\ resp = [status |-> 200, id |-> 0, uses |-> 0]
    /\ run = Idle
    /\ client = debounce([activeCookbook |-> NULL, query |-> <<>>, queryRef |-> <<>>,
                          timer |-> NULL, inflight |-> {}, fetches |-> 0,
                          allRecipes |-> <<>>, loaded |-> FALSE, initial |-> TRUE])

AppCookbooks == {NULL, Some(1), Some(2)}
AppQueries == {<<>>, <<" ">>, <<"a">>, <<"b">>}

\* handleCookbookSelect(id): setActiveCookbook(id); `reload` is a new
\* callback, so the effect [reload] calls reload() and the effect
\* [query, reload] restarts the timer
AppSelectCookbook ==
    \E id \in AppCookbooks :
        LET request == reload(id, client.queryRef) IN
        /\ id # client.activeCookbook
        /\ sends(client, request)
        /\ client' = debounce(send([client EXCEPT
                                      !.activeCookbook = id,
                                      !.initial = @ /\ IsNull(client.activeCookbook)],
                                   request))
        /\ UNCHANGED <<db, req, resp, run>>

\* the search input changes: setQuery(value); the effect [query] copies it
\* to queryRef and the effect [query, reload] restarts the timer
AppSetQuery ==
    \E q \in AppQueries :
        /\ q # client.query
        /\ client' = debounce([client EXCEPT !.query = q, !.queryRef = q,
                                             !.initial = FALSE])
        /\ UNCHANGED <<db, req, resp, run>>

\* 200 ms have passed: the timer calls reload(query) of its render
AppTimer ==
    /\ ~IsNull(client.timer)
    /\ LET request == reload(Get(client.timer).cookbook, Get(client.timer).query) IN
       /\ sends(client, request)
       /\ client' = send([client EXCEPT !.timer = NULL], request)
    /\ UNCHANGED <<db, req, resp, run>>

\* a response arrives: setAllRecipes(data)
AppRespond ==
    \E r \in client.inflight :
        /\ client' = [client EXCEPT !.inflight = @ \ {r},
                                    !.allRecipes = answer(db, r),
                                    !.loaded = TRUE]
        /\ UNCHANGED <<db, req, resp, run>>

NextApp == AppSelectCookbook \/ AppSetQuery \/ AppTimer \/ AppRespond

SpecApp == AppInit /\ [][NextApp]_vars

\* C25: while the page is in its initial load (the first cookbook was
\* selected, the query was never changed), exactly one request for the
\* recipe list has been sent once a cookbook is active: the debounced
\* search effect sends no second one
C25_OneFetchOnLoad ==
    (client.initial /\ ~IsNull(client.activeCookbook)) => client.fetches = 1

\* C28: once no request is in flight and no timer is pending, the list
\* displayed is the response for the cookbook and the query the page shows
\* now: the response of an earlier request that arrives late does not
\* replace it
C28_LatestResponseShown ==
    (/\ client.inflight = {}
     /\ IsNull(client.timer)
     /\ ~IsNull(client.activeCookbook)
     /\ client.loaded)
    => client.allRecipes = answer(db, Get(reload(client.activeCookbook, client.query)))

\* ------------------------------------------------ the cookbook sidebar
firstId(cookbooks) == IF Len(cookbooks) = 0 THEN NULL ELSE Some(cookbooks[1])

\* never falling back to the first cookbook
deriveNextCookbookId_keepActive(activeCookbookId, cookbooks) ==
    IF Len(cookbooks) = 0 THEN NULL
    ELSE IF IsNull(activeCookbookId) THEN firstId(cookbooks)
    ELSE activeCookbookId

\* cookbooks are modelled by their ids
deriveNextCookbookId(activeCookbookId, cookbooks) ==
    IF Len(cookbooks) = 0 THEN NULL
    ELSE IF IsNull(activeCookbookId) THEN firstId(cookbooks)
    ELSE IF \E i \in 1..Len(cookbooks) : cookbooks[i] = Get(activeCookbookId)
         THEN activeCookbookId
    ELSE firstId(cookbooks)

\* useEffect([cookbooks, activeCookbookId, onSelect]): onSelect(next) sets
\* the active cookbook of App, which renders the sidebar and runs the
\* effect again
RECURSIVE sidebarEffect(_)
sidebarEffect(c) ==
    LET next == deriveNextCookbookId(c.activeCookbookId, c.cookbooks) IN
    IF next = c.activeCookbookId THEN c
    ELSE sidebarEffect([c EXCEPT !.activeCookbookId = next])

SidebarIds == 1..(MaxCookbooks + 1)

\* the lists GET /api/cookbooks can answer with
CookbookLists ==
    {s \in UNION {[1..n -> SidebarIds] : n \in 0..(MaxCookbooks + 1)} :
        \A i, j \in 1..Len(s) : i # j => s[i] # s[j]}

\* the sidebar after its first render: no cookbooks yet, none active
SidebarInit ==
    /\ db = seedDefaultCookbook(EmptyDb)
    /\ req = NoReq
    /\ resp = [status |-> 200, id |-> 0, uses |-> 0]
    /\ run = Idle
    /\ client = [cookbooks |-> <<>>, activeCookbookId |-> NULL,
                 deleting |-> NULL, was |-> NULL]

sidebarStep(c) ==
    /\ client' = sidebarEffect([c EXCEPT !.was = client.activeCookbookId])
    /\ UNCHANGED <<db, req, resp, run>>

\* setCookbooks(await listCookbooks()): on mount, after create and rename
SidebarSetCookbooks ==
    \E list \in CookbookLists :
        sidebarStep([client EXCEPT !.cookbooks = list])

\* onClick={() => onSelect(cb.id)}
SidebarClick ==
    \E i \in 1..Len(client.cookbooks) :
        sidebarStep([client EXCEPT !.activeCookbookId = Some(client.cookbooks[i])])

\* the Delete button of the dialog: deleteCookbook(target.id) is awaited;
\* the handler keeps the activeCookbookId of the render it was made in
SidebarDeleteClick ==
    \E i \in 1..Len(client.cookbooks) :
        /\ IsNull(client.deleting)
        /\ sidebarStep([client EXCEPT !.deleting =
                           Some([target |-> client.cookbooks[i],
                                 activeCookbookId |-> client.activeCookbookId])])

\* ... const list = await listCookbooks(); setCookbooks(list);
\* if (activeCookbookId === target.id) onSelect(list[0] ? list[0].id : null)
SidebarDeleted ==
    \E list \in CookbookLists :
        /\ ~IsNull(client.deleting)
        /\ \A i \in 1..Len(list) : list[i] # Get(client.deleting).target
        /\ sidebarStep([client EXCEPT
                          !.cookbooks = list,
                          !.deleting = NULL,
                          !.activeCookbookId =
                              IF Get(client.deleting).activeCookbookId
                                   = Some(Get(client.deleting).target)
                              THEN firstId(list) ELSE @])

NextSidebar ==
    SidebarSetCookbooks \/ SidebarClick \/ SidebarDeleteClick \/ SidebarDeleted

SpecSidebar == SidebarInit /\ [][NextSidebar]_vars

\* C26: for the list the sidebar holds and every active id,
\* deriveNextCookbookId answers null exactly when the list is empty, the
\* active id when the list holds it, and the id of the first cookbook
\* otherwise; after the sidebar's effect the active cookbook is null or one
\* of the list
C26_SelectionIsNullOrListed ==
    /\ \A active \in {NULL} \cup {Some(id) : id \in SidebarIds} :
          LET next == deriveNextCookbookId(active, client.cookbooks) IN
          /\ IsNull(next) <=> client.cookbooks = <<>>
          /\ (~IsNull(active) /\ Get(active) \in Range(client.cookbooks)) => next = active
          /\ (client.cookbooks # <<>> /\ (IsNull(active) \/ Get(active) \notin Range(client.cookbooks)))
                => next = Some(client.cookbooks[1])
    /\ \/ IsNull(client.activeCookbookId)
       \/ Get(client.activeCookbookId) \in Range(client.cookbooks)

\* the active cookbook left the list and the first of the new list, not
\* the one with the lowest id, is active now
C26_Witness ==
    /\ ~IsNull(client.was)
    /\ client.cookbooks # <<>>
    /\ Get(client.was) \notin Range(client.cookbooks)
    /\ client.activeCookbookId = Some(client.cookbooks[1])
    /\ Len(client.cookbooks) = 2
    /\ client.cookbooks[1] > client.cookbooks[2]

\* --------------------------------------- what a recipe patch leaves alone
FramePayloads ==
    {FullPayload(1), [BarePayload(2) EXCEPT !.tags = Some(<<<<"n">>>>)]}

\* patches that carry tags (and a cookbook_id), which `update` never reads
FramePatches ==
    {[NoPayload EXCEPT !.tags = Some(<<<<"n">>>>)],
     [NoPayload EXCEPT !.tags = Some(<<>>), !.title = Some(<<"T">>)],
     [NoPayload EXCEPT !.cookbook_id = 2, !.tags = Some(<<<<"t">>, <<"k">>>>),
                       !.ingredients = Some(<<salt>>), !.steps = Some(<<step_k>>),
                       !.notes = Some(<<"m">>), !.servings = Some(2)]}

FrameCreateCookbook ==
    /\ db.seq.cookbooks < MaxCookbooks
    /\ Apply(createCookbook(db, <<"T">>))

FrameCreateRecipe ==
    \E p \in FramePayloads :
        /\ db.seq.recipes < MaxRecipes
        /\ Apply(createRecipe(db, p))

FrameAddLike == Apply(addLike(db, 1, <<"x">>))

FrameIncrementUses ==
    /\ \A r \in Range(db.recipes) : r.uses < MaxUses
    /\ Apply(incrementUses(db, 1))

FrameUpdateRecipe ==
    \E id \in {1, 2, MaxRecipes + 1}, p \in FramePatches :
        Serve(Req("updateRecipe", id, <<>>, p), updateRecipe(db, id, p))

NextFrame ==
    \/ FrameCreateCookbook
    \/ FrameCreateRecipe
    \/ FrameAddLike
    \/ FrameIncrementUses
    \/ FrameUpdateRecipe

SpecFrame == Init /\ [][NextFrame]_vars

\* what PATCH /api/recipes/:id of recipe `id` must find unchanged in d2
FrameKept(d, d2, id) ==
    /\ d2.recipe_tags = d.recipe_tags
    /\ d2.tags = d.tags
    /\ d2.recipe_likes = d.recipe_likes
    /\ d2.cookbooks = d.cookbooks
    /\ d2.seq = d.seq
    /\ Len(d2.recipes) = Len(d.recipes)
    /\ \A i \in 1..Len(d.recipes) :
          /\ d2.recipes[i].id = d.recipes[i].id
          /\ d2.recipes[i].uses = d.recipes[i].uses
          /\ d2.recipes[i].cookbook_id = d.recipes[i].cookbook_id
          /\ d.recipes[i].id # id => d2.recipes[i] = d.recipes[i]
    /\ \A other \in recipeIds(d) \ {id} :
          /\ rowsOf(d2.ingredients, other) = rowsOf(d.ingredients, other)
          /\ rowsOf(d2.steps, other) = rowsOf(d.steps, other)
          /\ rowsOf(d2.notes, other) = rowsOf(d.notes, other)

\* C27: updateRecipe leaves the tag links, the tags, the likes, the uses
\* and the cookbook of the recipe as they were, also when the patch holds
\* tags, and leaves every row of every other recipe as it was
C27_PatchKeepsTagsLikesUses ==
    \A id \in recipeIds(db), p \in FramePatches :
        FrameKept(db, updateRecipe(db, id, p).db, id)

\* recipe 1 has the tag "t", a like and a use, recipe 2 the tag "n"; a
\* patch with other tags, a cookbook_id and new ingredients was applied to
\* recipe 1, which still has its tag and not those of the patch
C27_Witness ==
    /\ req.op = "updateRecipe" /\ req.id = 1 /\ resp.status = 200
    /\ req.payload.tags = Some(<<<<"t">>, <<"k">>>>)
    /\ Len(db.recipes) = 2
    /\ tagsOf(db, 1) = {<<"t">>}
    /\ tagsOf(db, 2) = {<<"n">>}
    /\ likesOf(db, 1) = <<<<"x">>>>
    /\ recipeRow(db, 1).uses = 1
    /\ recipeRow(db, 1).cookbook_id = 1
    /\ rowsOf(db.notes, 1) # <<>>

\* ------------------------------------------------- RecipeCard: likes
normalizeName(value) == LOWER(trim(value))

hasLike(list, name) ==
    \E i \in 1..Len(list) : normalizeName(list[i]) = normalizeName(name)

RECURSIVE uniqNames(_)
uniqNames(list) ==
    IF list = <<>> THEN <<>>
    ELSE LET front == uniqNames(SubSeq(list, 1, Len(list) - 1))
             name == list[Len(list)]
         IN IF normalizeName(name) = <<>> \/ hasLike(front, name) THEN front
            ELSE Append(front, trim(name))

\* setLikes(prev => prev.some(same) ? prev : [...prev, name])
pushLike(likes, name) == IF hasLike(likes, name) THEN likes ELSE Append(likes, name)

\* setLikes(prev => prev.filter(entry => normalizeName(entry) !== normalizeName(name)))
pullLike(likes, name) ==
    LET other(entry) == normalizeName(entry) # normalizeName(name) IN
    SelectSeq(likes, other)

\* applyDetail / the effect on recipe.likes: the likes the server holds
shownLikes(d) == uniqNames(likesOf(d, 1))

LikeNames == {<<"x">>, <<"X">>, <<"y">>, <<" ">>}

\* a card of recipe 1, which has no likes yet; the detail dialog is closed
LikesInit ==
    /\ db = createRecipe(seedDefaultCookbook(EmptyDb), BarePayload(1)).db
    /\ req = NoReq
    /\ resp = [status |-> 200, id |-> 0, uses |-> 0]
    /\ run = Idle
    /\ client = [likes |-> <<>>, full |-> FALSE, pending |-> NULL, failed |-> NULL]

\* the dialog is opened (fetchAndApplyDetail) or closed
LikesToggleDetail ==
    /\ IsNull(client.pending)
    /\ client' = [client EXCEPT !.full = ~@, !.failed = NULL,
                                !.likes = IF client.full THEN @ ELSE shownLikes(db)]
    /\ UNCHANGED <<db, req, resp, run>>

\* persistLike(name) up to `await addLike(target, normalized)`
LikesPersist ==
    \E name \in LikeNames :
        /\ IsNull(client.pending)
        /\ trim(name) # <<>>
        /\ client' = [client EXCEPT
                        !.likes = pushLike(@, trim(name)),
                        !.failed = NULL,
                        !.pending = Some([op |-> "addLike", name |-> trim(name),
                                          before |-> client.likes])]
        /\ UNCHANGED <<db, req, resp, run>>

\* removeLikeInline(name) up to `await removeLike(full.id, name)`
LikesRemove ==
    \E i \in 1..Len(client.likes) :
        /\ IsNull(client.pending)
        /\ client.full
        /\ client' = [client EXCEPT
                        !.likes = pullLike(@, client.likes[i]),
                        !.failed = NULL,
                        !.pending = Some([op |-> "removeLike", name |-> client.likes[i],
                                          before |-> client.likes])]
        /\ UNCHANGED <<db, req, resp, run>>

\* the server call succeeds; onChange() reloads the list and the effect on
\* recipe.likes shows the likes of the server
LikesServed ==
    /\ ~IsNull(client.pending)
    /\ LET p == Get(client.pending)
           out == IF p.op = "addLike" THEN addLike(db, 1, p.name)
                  ELSE removeLike(db, 1, p.name)
       IN /\ db' = out.db
          /\ client' = [client EXCEPT !.pending = NULL, !.likes = shownLikes(out.db)]
    /\ UNCHANGED <<req, resp, run>>

\* the server call fails (the request does not get through): the catch
\* branch.  After a failed addLike an open dialog fetches the detail again,
\* which may fail as well.
LikesFailed ==
    \E refreshed \in BOOLEAN :
        /\ ~IsNull(client.pending)
        /\ LET p == Get(client.pending)
               undone == IF p.op = "addLike" THEN pullLike(client.likes, p.name)
                         ELSE pushLike(client.likes, p.name)
           IN client' = [client EXCEPT
                           !.pending = NULL,
                           !.failed = client.pending,
                           !.likes = IF p.op = "addLike" /\ client.full /\ refreshed
                                     THEN shownLikes(db) ELSE undone]
        /\ UNCHANGED <<db, req, resp, run>>

NextLikes ==
    LikesToggleDetail \/ LikesPersist \/ LikesRemove \/ LikesServed \/ LikesFailed

SpecLikes == LikesInit /\ [][NextLikes]_vars

\* C29: after a failed addLike the card shows exactly the likes it showed
\* before persistLike was called (a name that was shown already is still
\* shown); after a failed removeLike the removed name is shown again
C29_FailedLikeRestores ==
    ~IsNull(client.failed) =>
        LET p == Get(client.failed) IN
        /\ p.op = "addLike" => client.likes = p.before
        /\ p.op = "removeLike" => \E i \in 1..Len(client.likes) : client.likes[i] = p.name

\* ------------------------------------------------- picking a photo
MAX_DIMENSION == 1600

ImageFiles ==
    {[name |-> "a", width |-> 800, height |-> 600],
     [name |-> "b", width |-> 3200, height |-> 2400],
     [name |-> "c", width |-> 1000, height |-> 4000]}

\* Math.round(side * scale) with scale = Math.min(1, maxDimension / largestSide)
scaled(side, largestSide) ==
    IF largestSide <= MAX_DIMENSION THEN side
    ELSE (2 * side * MAX_DIMENSION + largestSide) \div (2 * largestSide)

\* loadImageDataUrl(file): the picture drawn on a canvas of at most
\* MAX_DIMENSION a side and encoded as JPEG
loadImageDataUrl(file) ==
    LET largestSide == IF file.width > file.height THEN file.width ELSE file.height IN
    [type |-> "image/jpeg", of |-> file.name,
     width |-> scaled(file.width, largestSide),
     height |-> scaled(file.height, largestSide)]

MaxPicks == 3

\* if (imageTaskRef.current === taskId) setPhoto(dataUrl)
isCurrent_always(imageTaskRef, taskId) == TRUE

isCurrent(imageTaskRef, taskId) == imageTaskRef = taskId

ImageInit ==
    /\ db = seedDefaultCookbook(EmptyDb)
    /\ req = NoReq
    /\ resp = [status |-> 200, id |-> 0, uses |-> 0]
    /\ run = Idle
    /\ client = [imageTaskRef |-> 0, photo |-> NULL, tasks |-> {},
                 picked |-> NULL, stale |-> FALSE]

\* onPickImage(file): const taskId = ++imageTaskRef.current; loadImageDataUrl(file)
ImagePick ==
    \E file \in ImageFiles :
        /\ client.imageTaskRef < MaxPicks
        /\ client' = [client EXCEPT
                        !.imageTaskRef = @ + 1,
                        !.tasks = @ \cup {[taskId |-> client.imageTaskRef + 1, file |-> file]},
                        !.picked = Some(file),
                        !.stale = FALSE]
        /\ UNCHANGED <<db, req, resp, run>>

\* .then((dataUrl) => ...): a conversion finishes, in any order
ImageConverted ==
    \E task \in client.tasks :
        /\ client' = [client EXCEPT
                        !.tasks = @ \ {task},
                        !.photo = IF isCurrent(client.imageTaskRef, task.taskId)
                                  THEN Some(loadImageDataUrl(task.file)) ELSE @,
                        !.stale = ~isCurrent(client.imageTaskRef, task.taskId)]
        /\ UNCHANGED <<db, req, resp, run>>

\* .catch((error) => console.error(...)): a conversion fails
ImageFailed ==
    \E task \in client.tasks :
        /\ client' = [client EXCEPT !.tasks = @ \ {task}, !.stale = FALSE]
        /\ UNCHANGED <<db, req, resp, run>>

\* resetForm(): setPhoto(undefined); the task counter is left as it is
ImageReset ==
    /\ ~IsNull(client.photo)
    /\ client' = [client EXCEPT !.photo = NULL, !.stale = FALSE]
    /\ UNCHANGED <<db, req, resp, run>>

NextImage == ImagePick \/ ImageConverted \/ ImageFailed \/ ImageReset

SpecImage == ImageInit /\ [][NextImage]_vars

\* C30: a conversion changes the photo of the form only to the converted
\* picture of the file picked last: a conversion of an earlier pick that
\* finishes after a later pick leaves the photo as it is
C30_OnlyLastPickApplied ==
    [][(client'.photo # client.photo /\ ~IsNull(client'.photo)) =>
          /\ ~IsNull(client.picked)
          /\ client'.photo = Some(loadImageDataUrl(Get(client.picked)))]_vars

\* "b" was picked after "a" and converted first; the conversion of "a" has
\* just finished and the photo is still the scaled-down "b"
C30_Witness ==
    /\ client.imageTaskRef = 2
    /\ client.stale
    /\ client.tasks = {}
    /\ client.picked = Some([name |-> "b", width |-> 3200, height |-> 2400])
    /\ client.photo = Some([type |-> "image/jpeg", of |-> "b",
                            width |-> 1600, height |-> 1200])

====
